---- MODULE Spec2Model ----
(***************************************************************************)
(* A model of the ds2api protocol gateway: the round-robin account pool    *)
(* (core/auth.py), the session orchestrator (core/session_manager.py) and  *)
(* the request handler that drives them (routes/openai.py).                *)
(*                                                                         *)
(* SpecPool : threads calling choose_new_account / release_account /       *)
(*            init_account_queue on the shared pool, with the statements   *)
(*            inside "with _queue_lock" as separate steps.                 *)
(* SpecReq  : requests going through chat_completions, each pool call      *)
(*            taken as one step (its atomicity is what SpecPool checks).   *)
(***************************************************************************)
EXTENDS Naturals, Integers, Sequences, FiniteSets, TLC

\* ------------------------------------------------------------------ bounds
NAccounts == 2
NThreads == 2
\* Engine() instances the threads may create in all (SpecWasm)
MaxEngines == 2
\* longest list of fragment descriptors in a chunk (SpecSse)
MaxFrags == 2

Accounts == 1..NAccounts
Threads == 1..NThreads
NONE == 0
NoThread == 0
\* a bearer value that is the caller's own key, not a pooled account's token
CALLER == -1
\* max_attempts of create_session, get_pow_response, call_completion_endpoint
max_attempts == 3

VARIABLES
    \* core/auth.py module state
    account_queue,      \* list of available accounts (an account is its identifier)
    in_use_accounts,    \* dict: identifier -> account
    token,              \* account -> TRUE iff account["token"].strip() is non-empty
    queue_lock,         \* _queue_lock: the thread holding it, or NoThread
    \* one pool call per thread (SpecPool): position and locals
    t_pc, t_exclude, t_i, t_acc_id, t_selected, t_account,
    \* history of the call in progress (SpecPool): the pool as it was when the
    \* call took the lock: [queue, in_use, token, partition]
    t_pre,
    \* history for round-robin: accounts that were available when a was released
    \* and have not been returned by a checkout since
    rr_tracked, rr_waiting,
    \* the request under study (SpecReq): request.state and the handler's
    \* locals, as a record:
    \*   pc               position in chat_completions
    \*   use_config_token request.state.use_config_token
    \*   account          request.state.account (NONE: attribute not set)
    \*   deepseek_token   request.state.deepseek_token: the account whose token
    \*                    it is, CALLER for the caller's key, NONE if not set
    \*   tried_accounts   request.state.tried_accounts
    \*   selected         selected_account / new_account
    \*   attempts, token_refreshed   locals of the retry loop being run
    \*   stream           req_data["stream"]
    \*   status           HTTP status of the response (0: none yet)
    req,
    \* history of the request (SpecReq):
    \*   checked_out the request checked an account out at admission
    \*   exhausted   a checkout made for the request returned None
    \*   releases    release_account calls made for the request
    \*   refreshes   per account, the refreshes this create_session attempted
    \*   rejected    the last upstream answer of create_session was a token
    \*               rejection in pooled mode
    \*   outcome     the upstream answer the function being run is handling
    \*               ("none": no call made yet, or the answer has been handled)
    \*   cs_calls    session-creation POSTs of this create_session invocation
    \*   got_session, got_pow   create_session returned an id / get_pow an answer
    \*   pow_fetches challenge fetches of this get_pow_response invocation
    \*   pow_fresh   the challenge in hand has not been given to the solver
    \*   pow_resolve a challenge was given to the solver a second time
    \*   comp_calls  completion POSTs of this call_completion_endpoint invocation
    \*   unclosed    non-200 completion responses not closed
    \*   admitted    the account checked out at admission (NONE: none)
    \*   replacements   the accounts checked out by failovers
    \*   session_token  the token that created the session in hand
    req_hist,
    \* accounts checked out by the other requests in flight (SpecReq)
    others_hold,
    \* accounts that another request released when its handler returned the
    \* StreamingResponse and whose sse_stream has not ended yet (SpecReq)
    others_streaming,
    \* core/pow.py module state (SpecWasm)
    wasm_engine,        \* _wasm_engine: None or the Engine instance
    wasm_module,        \* _wasm_module: None or the Module instance, named by
                        \* the engine it was compiled for
    wasm_cache_lock,    \* _wasm_cache_lock: the thread holding it, or NoThread
    \* one _get_cached_wasm_module call per thread (SpecWasm): position and
    \* the pair being returned
    w_pc, w_ret,
    \* history (SpecWasm): Engine() instances created, Module() compilations
    \* that succeeded, pairs returned by calls
    w_created, w_compiled, w_returned,
    \* routes/openai.py collect_data loop over core/sse_parser.py (SpecSse):
    \* a stream is being read; thinking_enabled; current_fragment_type
    sse_pc, sse_thinking_enabled, sse_current,
    \* the last call of parse_sse_chunk_for_content: whether there was one, its
    \* chunk, the current_fragment_type passed in, and what it returned
    sse_called, sse_chunk, sse_passed, sse_result,
    \* history (SpecSse): the kind of the last fragment tag of an append chunk
    \* fed in this stream, "none" before the first
    sse_tag_seen,
    \* a RESPONSE-type fragment was appended earlier in the stream
    sse_response_started,
    \* core/sse_parser.py collect_deepseek_response (SpecCollect): position,
    \* lines read, thinking_parts, text_parts, response.close() calls; history:
    \* the last chunk, what extract_content_from_chunk returned for it, the
    \* parts before it, and whether a chunk ended the stream
    col_pc, col_n, col_thinking_parts, col_text_parts, col_closed, col_last, col_result, col_before, col_ended,
    \* core/sse_parser.py parse_tool_calls (SpecTools): position, the text and
    \* tool list of the call, what it returned or that it raised
    tc_pc, tc_text, tc_tools, tc_result,
    \* core/messages.py messages_prepare (SpecMessages): position, the message
    \* list of the call, the prompt returned (a string is the sequence of its
    \* pieces)
    mp_pc, mp_messages, mp_result,
    \* routes/openai.py sse_stream (SpecStream): the polling loop (position,
    \* whether a timeout left it, first_chunk_sent, keepalive_count, the seconds
    \* since last_send_time and since last_content_time, finish chunks and end
    \* markers sent) and process_data (position, the item it is about to put),
    \* with has_content and result_queue between them
    ss_pc, ss_forced, ss_first_chunk_sent, ss_keepalive_count, ss_send_age, ss_content_age, ss_finish_sent, ss_done_sent, ss_prod, ss_pending, ss_has_content, ss_queue,
    ss_tools_requested, ss_final_text, ss_raised,
    \* the finish_reason of the last finish chunk, the exit path of process_data,
    \* deepseek_resp.close() was called
    ss_finish_reason, ss_exit, ss_closed

poolVars == <<account_queue, in_use_accounts, token, queue_lock>>
thrVars == <<t_pc, t_exclude, t_i, t_acc_id, t_selected, t_account>>
histVars == <<t_pre, rr_tracked, rr_waiting>>
reqVars == <<req>>
reqHist == <<req_hist, others_hold, others_streaming>>
wasmVars == <<wasm_engine, wasm_module, wasm_cache_lock, w_pc, w_ret,
              w_created, w_compiled, w_returned>>
\* the state of the modules a pool or request step has no part in
sseVars == <<sse_pc, sse_thinking_enabled, sse_current, sse_called, sse_chunk,
             sse_passed, sse_result, sse_tag_seen,
             sse_response_started>>
colVars == <<col_pc, col_n, col_thinking_parts, col_text_parts, col_closed, col_last, col_result, col_before, col_ended>>
tcVars == <<tc_pc, tc_text, tc_tools, tc_result>>
mpVars == <<mp_pc, mp_messages, mp_result>>
ssVars == <<ss_pc, ss_forced, ss_first_chunk_sent, ss_keepalive_count, ss_send_age, ss_content_age, ss_finish_sent, ss_done_sent, ss_prod, ss_pending, ss_has_content, ss_queue,
    ss_tools_requested, ss_final_text, ss_raised,
    ss_finish_reason, ss_exit, ss_closed>>
restVars == <<wasmVars, sseVars, colVars, tcVars, mpVars, ssVars>>
vars == <<poolVars, thrVars, histVars, reqVars, reqHist, restVars>>

\* ------------------------------------------------------------ pure helpers
\* get_account_identifier: accounts are modelled by their (distinct, non-empty)
\* identifiers, so the identifier of account a is a itself.
get_account_identifier(a) == a

CONFIG_accounts == [i \in 1..NAccounts |-> i]

has_token(tok, a) == tok[a]

RemoveAt(q, i) == SubSeq(q, 1, i - 1) \o SubSeq(q, i + 1, Len(q))

\* in_use_accounts[acc_id] = selected
DictPut_Lost(d, k, v) == d
DictPut(d, k, v) == [x \in (DOMAIN d) \cup {k} |-> IF x = k THEN v ELSE d[x]]
\* del in_use_accounts[acc_id]
DictDel(d, k) == [x \in (DOMAIN d) \ {k} |-> d[x]]
EmptyDict == [x \in {} |-> NONE]

\* account_queue.sort(key=lambda a: 0 if token else 1): a stable sort
SortByToken(q, tok) ==
    LET Has(a) == has_token(tok, a)
        HasNot(a) == ~has_token(tok, a)
    IN SelectSeq(q, Has) \o SelectSeq(q, HasNot)

\* first loop of choose_new_account: index of the first entry that is not
\* excluded and has a token, scanning from i; 0 when the loop falls through
RECURSIVE ScanWithToken(_, _, _, _)
ScanWithToken(q, ex, tok, i) ==
    IF i > Len(q) THEN 0
    ELSE IF get_account_identifier(q[i]) \notin ex /\ has_token(tok, q[i]) THEN i
    ELSE ScanWithToken(q, ex, tok, i + 1)

\* second loop: index of the first entry that is not excluded
ScanAny_IgnoreExclude(q, ex, i) == IF i > Len(q) THEN 0 ELSE i
RECURSIVE ScanAny(_, _, _)
ScanAny(q, ex, i) ==
    IF i > Len(q) THEN 0
    ELSE IF get_account_identifier(q[i]) \notin ex THEN i
    ELSE ScanAny(q, ex, i + 1)

\* the two loops of choose_new_account: the (1-based) index popped, 0 for None
ScanQueue_NoTokenTier(q, ex, tok) == ScanAny(q, ex, 1)
ScanQueue(q, ex, tok) ==
    LET i == ScanWithToken(q, ex, tok, 1)
    IN IF i # 0 THEN i ELSE ScanAny(q, ex, 1)

\* account_queue.append(account)
PushFront(q, a) == <<a>> \o q
PushBack(q, a) == Append(q, a)

\* "if acc_id in in_use_accounts" of release_account
ReleaseGuard_Always(d, id) == TRUE
ReleaseGuard(d, id) == id \in DOMAIN d

\* "with _queue_lock": the lock can be taken
LockFree_NoLock == TRUE
LockFree == queue_lock = NoThread

\* get_queue_status
get_queue_status ==
    [available |-> Len(account_queue),
     in_use |-> Cardinality(DOMAIN in_use_accounts),
     total |-> Len(CONFIG_accounts),
     available_accounts |-> [i \in 1..Len(account_queue) |->
                                get_account_identifier(account_queue[i])],
     in_use_accounts |-> DOMAIN in_use_accounts]

Occurrences(q, a) == Cardinality({i \in 1..Len(q) : q[i] = a})
InUseCount(d, a) == Cardinality({k \in DOMAIN d : d[k] = a})

\* every configured account is in exactly one of the queue and the map
Partition(q, d) ==
    /\ \A a \in Accounts : Occurrences(q, a) + InUseCount(d, a) = 1
    /\ \A k \in DOMAIN d : get_account_identifier(d[k]) = k

\* --------------------------------------------------------------- SpecPool
TokenSets == [Accounts -> BOOLEAN]

NoPre == [queue |-> <<>>, in_use |-> EmptyDict,
          token |-> [a \in Accounts |-> FALSE], partition |-> TRUE]

NewRequest ==
    [pc |-> "start", use_config_token |-> FALSE, account |-> NONE,
     deepseek_token |-> NONE, tried_accounts |-> {}, selected |-> NONE,
     attempts |-> 0, token_refreshed |-> FALSE, stream |-> FALSE, status |-> 0]
NoRefreshes == [a \in Accounts |-> 0]
NewHist ==
    [checked_out |-> FALSE, exhausted |-> FALSE, releases |-> 0,
     refreshes |-> NoRefreshes, rejected |-> FALSE,
     outcome |-> "none", cs_calls |-> 0,
     got_session |-> FALSE, got_pow |-> FALSE,
     pow_fetches |-> 0, pow_fresh |-> FALSE, pow_resolve |-> FALSE,
     comp_calls |-> 0, unclosed |-> 0,
     admitted |-> NONE, replacements |-> {}, session_token |-> NONE]

ReqIdle ==
    /\ req = NewRequest
    /\ req_hist = NewHist
    /\ others_hold = {}
    /\ others_streaming = {}

\* core/pow.py as imported, before the preload at line 50
NoInstance == 0
NoPair == [engine |-> NoInstance, module |-> NoInstance]
WasmIdle ==
    /\ wasm_engine = NoInstance
    /\ wasm_module = NoInstance
    /\ wasm_cache_lock = NoThread
    /\ w_pc = [t \in Threads |-> "idle"]
    /\ w_ret = [t \in Threads |-> NoPair]
    /\ w_created = 0
    /\ w_compiled = 0
    /\ w_returned = {}

\* a chunk without the key "v"
NoChunk == [has_v |-> FALSE, p |-> "", vtype |-> "none", s |-> "", items |-> <<>>]
NoResult == [contents |-> <<>>, is_finished |-> FALSE, new_fragment_type |-> "text"]
SseIdle ==
    /\ sse_pc = "idle"
    /\ sse_thinking_enabled = FALSE
    /\ sse_current = "text"
    /\ sse_called = FALSE
    /\ sse_chunk = NoChunk
    /\ sse_passed = "text"
    /\ sse_result = NoResult
    /\ sse_tag_seen = "none"
    /\ sse_response_started = FALSE
\* a line of the upstream response as parse_deepseek_sse_line returns it: none
\* (the line gives no chunk), or a chunk with done (type == "done"), error (the
\* key "error"), code, and the keys p and v of body
Line(none, done, error, code, body) ==
    [none |-> none, done |-> done, error |-> error, code |-> code, body |-> body]
NoLine == Line(TRUE, FALSE, FALSE, "", NoChunk)
Extract(content, content_type, is_finished) ==
    [content |-> content, content_type |-> content_type, is_finished |-> is_finished]
NoExtract == Extract("", "text", FALSE)
ColIdle ==
    /\ col_pc = "idle"
    /\ col_n = 0
    /\ col_thinking_parts = <<>>
    /\ col_text_parts = <<>>
    /\ col_closed = 0
    /\ col_last = NoLine
    /\ col_result = NoExtract
    /\ col_before = [thinking |-> <<>>, text |-> <<>>]
    /\ col_ended = FALSE
\* what parse_tool_calls gives: it raised, or the list of calls it returned
Calls(raised, calls) == [raised |-> raised, calls |-> calls]
NoCalls == Calls(FALSE, <<>>)
TcIdle ==
    /\ tc_pc = "idle"
    /\ tc_text = <<>>
    /\ tc_tools = <<>>
    /\ tc_result = NoCalls
MpIdle ==
    /\ mp_pc = "idle"
    /\ mp_messages = <<>>
    /\ mp_result = <<>>
SsIdle ==
    /\ ss_pc = "idle"
    /\ ss_forced = FALSE
    /\ ss_first_chunk_sent = FALSE
    /\ ss_keepalive_count = 0
    /\ ss_send_age = 0
    /\ ss_content_age = 0
    /\ ss_finish_sent = 0
    /\ ss_done_sent = 0
    /\ ss_prod = "idle"
    /\ ss_pending = "None"
    /\ ss_has_content = FALSE
    /\ ss_queue = <<>>
    /\ ss_tools_requested = <<>>
    /\ ss_final_text = <<>>
    /\ ss_raised = FALSE
    /\ ss_finish_reason = "none"
    /\ ss_exit = "none"
    /\ ss_closed = FALSE
RestIdle == WasmIdle /\ SseIdle /\ ColIdle /\ TcIdle /\ MpIdle /\ SsIdle

ThreadsIdle ==
    /\ queue_lock = NoThread
    /\ t_pc = [t \in Threads |-> "idle"]
    /\ t_exclude = [t \in Threads |-> {}]
    /\ t_i = [t \in Threads |-> 0]
    /\ t_acc_id = [t \in Threads |-> NONE]
    /\ t_selected = [t \in Threads |-> NONE]
    /\ t_account = [t \in Threads |-> NONE]
    /\ t_pre = [t \in Threads |-> NoPre]
    /\ rr_tracked = {}
    /\ rr_waiting = [a \in Accounts |-> {}]

InitPool ==
    /\ token \in TokenSets
    /\ account_queue = SortByToken(CONFIG_accounts, token)
    /\ in_use_accounts = EmptyDict
    /\ ThreadsIdle
    /\ ReqIdle
    /\ RestIdle

\* a thread takes the lock: what it sees is recorded
Enter(t) ==
    /\ queue_lock' = t
    /\ t_pre' = [t_pre EXCEPT ![t] =
                    [queue |-> account_queue, in_use |-> in_use_accounts,
                     token |-> token,
                     partition |-> Partition(account_queue, in_use_accounts)]]

\* a thread leaves the with-block and returns; its locals die
Leave(t) ==
    /\ queue_lock' = IF queue_lock = t THEN NoThread ELSE queue_lock
    /\ t_pc' = [t_pc EXCEPT ![t] = "idle"]
    /\ t_exclude' = [t_exclude EXCEPT ![t] = {}]
    /\ t_i' = [t_i EXCEPT ![t] = 0]
    /\ t_acc_id' = [t_acc_id EXCEPT ![t] = NONE]
    /\ t_selected' = [t_selected EXCEPT ![t] = NONE]
    /\ t_account' = [t_account EXCEPT ![t] = NONE]
    /\ t_pre' = [t_pre EXCEPT ![t] = NoPre]

\* choose_new_account(exclude_ids): take the lock and run the two loops up to
\* the entry that will be popped
ChooseScan(t) ==
    /\ t_pc[t] = "idle"
    /\ LockFree
    /\ \E ex \in SUBSET Accounts :
         LET i == ScanQueue(account_queue, ex, token) IN
         /\ t_exclude' = [t_exclude EXCEPT ![t] = ex]
         /\ t_i' = [t_i EXCEPT ![t] = i]
         /\ t_acc_id' = [t_acc_id EXCEPT ![t] =
               IF i = 0 THEN NONE ELSE get_account_identifier(account_queue[i])]
         /\ t_pc' = [t_pc EXCEPT ![t] = IF i = 0 THEN "choose_return" ELSE "choose_pop"]
    /\ Enter(t)
    /\ UNCHANGED <<account_queue, in_use_accounts, token, t_selected, t_account,
                   rr_tracked, rr_waiting>>
    /\ UNCHANGED <<reqVars, reqHist, restVars>>

\* selected = account_queue.pop(i)
ChoosePop(t) ==
    /\ t_pc[t] = "choose_pop"
    /\ t_i[t] <= Len(account_queue)
    /\ t_selected' = [t_selected EXCEPT ![t] = account_queue[t_i[t]]]
    /\ account_queue' = RemoveAt(account_queue, t_i[t])
    /\ t_pc' = [t_pc EXCEPT ![t] = "choose_insert"]
    /\ UNCHANGED <<in_use_accounts, token, queue_lock, t_exclude, t_i, t_acc_id,
                   t_account, histVars>>
    /\ UNCHANGED <<reqVars, reqHist, restVars>>

\* in_use_accounts[acc_id] = selected
ChooseInsert(t) ==
    /\ t_pc[t] = "choose_insert"
    /\ in_use_accounts' = DictPut(in_use_accounts, t_acc_id[t], t_selected[t])
    /\ t_pc' = [t_pc EXCEPT ![t] = "choose_return"]
    /\ UNCHANGED <<account_queue, token, queue_lock, t_exclude, t_i, t_acc_id,
                   t_selected, t_account, histVars>>
    /\ UNCHANGED <<reqVars, reqHist, restVars>>

\* return selected / return None
ChooseReturn(t) ==
    /\ t_pc[t] = "choose_return"
    /\ Leave(t)
    /\ LET b == t_selected[t] IN
       /\ rr_tracked' = rr_tracked \ {b}
       /\ rr_waiting' = [a \in Accounts |->
                            IF a = b THEN {} ELSE rr_waiting[a] \ {b}]
    /\ UNCHANGED <<account_queue, in_use_accounts, token>>
    /\ UNCHANGED <<reqVars, reqHist, restVars>>

\* release_account(account): take the lock and test "acc_id in in_use_accounts"
ReleaseCheck(t) ==
    /\ t_pc[t] = "idle"
    /\ LockFree
    /\ \E a \in Accounts :
         /\ t_account' = [t_account EXCEPT ![t] = a]
         /\ t_acc_id' = [t_acc_id EXCEPT ![t] = get_account_identifier(a)]
         /\ t_pc' = [t_pc EXCEPT ![t] =
               IF ReleaseGuard(in_use_accounts, get_account_identifier(a))
               THEN "release_del" ELSE "release_return"]
    /\ Enter(t)
    /\ UNCHANGED <<account_queue, in_use_accounts, token, t_exclude, t_i,
                   t_selected, rr_tracked, rr_waiting>>
    /\ UNCHANGED <<reqVars, reqHist, restVars>>

\* del in_use_accounts[acc_id]
ReleaseDel(t) ==
    /\ t_pc[t] = "release_del"
    /\ in_use_accounts' = DictDel(in_use_accounts, t_acc_id[t])
    /\ t_pc' = [t_pc EXCEPT ![t] = "release_append"]
    /\ UNCHANGED <<account_queue, token, queue_lock, t_exclude, t_i, t_acc_id,
                   t_selected, t_account, histVars>>
    /\ UNCHANGED <<reqVars, reqHist, restVars>>

\* account_queue.append(account)
ReleaseAppend(t) ==
    /\ t_pc[t] = "release_append"
    /\ account_queue' = PushBack(account_queue, t_account[t])
    /\ rr_tracked' = rr_tracked \cup {t_account[t]}
    /\ rr_waiting' = [rr_waiting EXCEPT ![t_account[t]] =
                         {account_queue[i] : i \in 1..Len(account_queue)}
                             \ {t_account[t]}]
    /\ t_pc' = [t_pc EXCEPT ![t] = "release_return"]
    /\ UNCHANGED <<in_use_accounts, token, queue_lock, t_exclude, t_i, t_acc_id,
                   t_selected, t_account, t_pre>>
    /\ UNCHANGED <<reqVars, reqHist, restVars>>

ReleaseReturn(t) ==
    /\ t_pc[t] = "release_return"
    /\ Leave(t)
    /\ UNCHANGED <<account_queue, in_use_accounts, token, rr_tracked, rr_waiting>>
    /\ UNCHANGED <<reqVars, reqHist, restVars>>

\* init_account_queue(): the whole body runs under the lock
InitAccountQueue ==
    /\ LockFree
    /\ account_queue' = SortByToken(CONFIG_accounts, token)
    /\ in_use_accounts' = EmptyDict
    /\ rr_tracked' = {}
    /\ rr_waiting' = [a \in Accounts |-> {}]
    /\ UNCHANGED <<token, queue_lock, thrVars, t_pre>>
    /\ UNCHANGED <<reqVars, reqHist, restVars>>

\* login_deepseek_via_account(account) storing a token; mark_token_invalid /
\* refresh_account_token clearing it. Neither takes the pool lock.
SetToken(a) ==
    /\ ~token[a]
    /\ token' = [token EXCEPT ![a] = TRUE]
    /\ UNCHANGED <<account_queue, in_use_accounts, queue_lock, thrVars, histVars,
                   reqVars, reqHist, restVars>>

ClearToken(a) ==
    /\ token[a]
    /\ token' = [token EXCEPT ![a] = FALSE]
    /\ UNCHANGED <<account_queue, in_use_accounts, queue_lock, thrVars, histVars,
                   reqVars, reqHist, restVars>>

NextPool ==
    \/ \E t \in Threads : ChooseScan(t)
    \/ \E t \in Threads : ChoosePop(t)
    \/ \E t \in Threads : ChooseInsert(t)
    \/ \E t \in Threads : ChooseReturn(t)
    \/ \E t \in Threads : ReleaseCheck(t)
    \/ \E t \in Threads : ReleaseDel(t)
    \/ \E t \in Threads : ReleaseAppend(t)
    \/ \E t \in Threads : ReleaseReturn(t)
    \/ InitAccountQueue
    \/ \E a \in Accounts : SetToken(a)
    \/ \E a \in Accounts : ClearToken(a)

SpecPool == InitPool /\ [][NextPool]_vars

\* ---------------------------------------------------------------- SpecReq
\* choose_new_account(exclude_ids) taken as one step: what it returns and the
\* pool it leaves
choose_new_account(q, d, tok, ex) ==
    LET i == ScanQueue(q, ex, tok) IN
    IF i = 0 THEN [selected |-> NONE, queue |-> q, in_use |-> d]
    ELSE [selected |-> q[i],
          queue |-> RemoveAt(q, i),
          in_use |-> DictPut(d, get_account_identifier(q[i]), q[i])]

\* release_account(account) taken as one step: the pool it leaves
release_account(q, d, a) ==
    IF a = NONE THEN [queue |-> q, in_use |-> d]
    ELSE IF ReleaseGuard(d, get_account_identifier(a))
         THEN [queue |-> PushBack(q, a),
               in_use |-> DictDel(d, get_account_identifier(a))]
         ELSE [queue |-> q, in_use |-> d]

\* cleanup_account(request): whether it calls release_account
cleanup_releases(s) == s.use_config_token /\ s.account # NONE

\* cleanup_account(request): the pool it leaves
cleanup_account(q, d, s) ==
    IF cleanup_releases(s) THEN release_account(q, d, s.account)
    ELSE [queue |-> q, in_use |-> d]

InitReq ==
    /\ token \in TokenSets
    /\ account_queue = SortByToken(CONFIG_accounts, token)
    /\ in_use_accounts = EmptyDict
    /\ ThreadsIdle
    /\ ReqIdle
    /\ RestIdle

EnvFrame == UNCHANGED <<queue_lock, thrVars, histVars, restVars>>
ReqFrame == UNCHANGED <<queue_lock, thrVars, histVars, others_streaming, restVars>>
PoolSame == UNCHANGED <<account_queue, in_use_accounts>>
\* a step of the request that touches neither the pool nor any token
Local == UNCHANGED <<account_queue, in_use_accounts, token, others_hold,
                     others_streaming, queue_lock, thrVars, histVars, restVars>>

\* the handler ends with an error response: return JSONResponse(status_code=...);
\* the locals of the function that was running die
Fail(s, code) == [s EXCEPT !.pc = "finally", !.status = code, !.selected = NONE,
                           !.attempts = 0, !.token_refreshed = FALSE]

\* determine_mode_and_token, no "Bearer " header: 401
AdmitUnauthorized ==
    /\ req.pc = "start"
    /\ req' = Fail(req, 401)
    /\ UNCHANGED req_hist
    /\ Local

\* determine_mode_and_token, the caller's key is not a configured key: the
\* bearer value itself is the upstream token
AdmitCallerToken ==
    /\ req.pc = "start"
    /\ req' = [req EXCEPT !.use_config_token = FALSE, !.deepseek_token = CALLER,
                          !.pc = "parse"]
    /\ UNCHANGED req_hist
    /\ Local

\* determine_mode_and_token, configured key: check an account out
admit_pooled(s, sel, tok) ==
    LET s1 == [s EXCEPT !.use_config_token = TRUE, !.tried_accounts = {},
                        !.selected = sel]
    IN IF sel = NONE THEN Fail(s1, 429)
       ELSE IF ~has_token(tok, sel) THEN [s1 EXCEPT !.pc = "admit_login"]
       ELSE [s1 EXCEPT !.deepseek_token = sel, !.account = sel,
                       !.selected = NONE, !.pc = "parse"]

AdmitPooled ==
    /\ req.pc = "start"
    /\ LET c == choose_new_account(account_queue, in_use_accounts, token, {}) IN
       /\ account_queue' = c.queue
       /\ in_use_accounts' = c.in_use
       /\ req' = admit_pooled(req, c.selected, token)
       /\ req_hist' = [req_hist EXCEPT !.exhausted = @ \/ c.selected = NONE,
                                       !.checked_out = @ \/ c.selected # NONE,
                                       !.admitted = c.selected]
    /\ UNCHANGED <<token, others_hold>>
    /\ ReqFrame

\* determine_mode_and_token: login_deepseek_via_account(selected_account)
admit_login(s, ok) ==
    IF ok THEN [s EXCEPT !.deepseek_token = s.selected, !.account = s.selected,
                         !.selected = NONE, !.pc = "parse"]
    ELSE Fail(s, 500)

AdmitLogin ==
    /\ req.pc = "admit_login"
    /\ \E ok \in BOOLEAN :
         /\ req' = admit_login(req, ok)
         /\ token' = IF ok THEN [token EXCEPT ![req.selected] = TRUE] ELSE token
    /\ UNCHANGED <<req_hist, others_hold>>
    /\ PoolSame /\ ReqFrame

\* chat_completions up to create_session: the body is read and validated
\* (400 without model or messages, 503 for an unknown model)
ParseBody ==
    /\ req.pc = "parse"
    /\ \/ req' = [req EXCEPT !.attempts = 0, !.token_refreshed = FALSE,
                             !.pc = "cs_post"]
       \/ \E code \in {400, 503} : req' = Fail(req, code)
    /\ UNCHANGED req_hist
    /\ Local

\* create_session: one pass of the while-loop up to the point where it calls
\* refresh_account_token or choose_new_account
UpstreamOutcomes == {"exception", "ok", "token_rejected", "other_failure"}

\* "if request.state.use_config_token": refresh and failover are for pooled mode
use_failover_Always(s) == TRUE
use_failover(s) == s.use_config_token

\* chat_completions: with a session id in hand, get_pow(request) comes next
AfterCreateSession_SkipPow == "completion"
AfterCreateSession == "pow_post"

\* "except Exception: attempts += 1; continue" of create_session
on_exception_Failover(s) == [s EXCEPT !.pc = "cs_failover"]
on_exception(s) == [s EXCEPT !.attempts = @ + 1]

create_session_post(s, outcome) ==
    CASE outcome = "exception" -> on_exception(s)
      [] outcome = "ok" -> [s EXCEPT !.pc = AfterCreateSession, !.attempts = 0,
                                     !.token_refreshed = FALSE]
      [] OTHER ->
           IF use_failover(s)
           THEN IF outcome = "token_rejected" /\ ~s.token_refreshed
                THEN [s EXCEPT !.pc = "cs_refresh"]
                ELSE [s EXCEPT !.pc = "cs_failover"]
           ELSE [s EXCEPT !.attempts = @ + 1]

CreateSessionPost ==
    /\ req.pc = "cs_post"
    /\ req.attempts < max_attempts
    /\ \E outcome \in UpstreamOutcomes :
         /\ req' = create_session_post(req, outcome)
         /\ req_hist' = [req_hist EXCEPT
               !.refreshes = IF outcome = "ok" THEN NoRefreshes ELSE @,
               !.rejected = (outcome = "token_rejected" /\ req.use_config_token),
               !.outcome = IF outcome = "ok" THEN "none" ELSE outcome,
               !.cs_calls = IF outcome = "ok" THEN 0 ELSE @ + 1,
               !.got_session = (outcome = "ok"),
               !.session_token = IF outcome = "ok" THEN req.deepseek_token ELSE @]
    /\ Local

\* create_session returns None (attempts used up): 401 "invalid token."
CreateSessionGiveUp ==
    /\ req.pc = "cs_post"
    /\ req.attempts >= max_attempts
    /\ req' = Fail(req, 401)
    /\ req_hist' = [req_hist EXCEPT !.refreshes = NoRefreshes, !.rejected = FALSE,
                                    !.outcome = "none"]
    /\ Local

\* "if refresh_account_token(request): token_refreshed = True": the flag is
\* set when the refresh succeeds
refresh_flag(s, ok) == IF ok THEN TRUE ELSE s.token_refreshed

\* refresh_account_token(request) as create_session calls it
create_session_refresh(s, ok) ==
    IF ok THEN [s EXCEPT !.deepseek_token = s.account,
                         !.token_refreshed = refresh_flag(s, ok),
                         !.pc = "cs_post"]
    ELSE [s EXCEPT !.token_refreshed = refresh_flag(s, ok), !.pc = "cs_failover"]

CreateSessionRefresh ==
    /\ req.pc = "cs_refresh"
    /\ \E ok \in BOOLEAN :
         /\ req' = create_session_refresh(req, ok)
         /\ token' = [token EXCEPT ![req.account] = ok]
         /\ req_hist' = [req_hist EXCEPT
               !.refreshes[req.account] = @ + 1,
               !.outcome = IF ok THEN "none" ELSE @]
    /\ UNCHANGED others_hold
    /\ PoolSame /\ ReqFrame

\* account failover of create_session and get_pow_response: the current
\* identifier joins tried_accounts, then choose_new_account(tried_accounts)
failover_tried_Stale(s) == s.tried_accounts
failover_tried(s) == s.tried_accounts \cup {get_account_identifier(s.account)}

failover_choose(s, sel, login_pc) ==
    LET s1 == [s EXCEPT !.tried_accounts = failover_tried(s), !.selected = sel]
    IN IF sel = NONE THEN Fail(s1, 401)
       ELSE [s1 EXCEPT !.pc = login_pc]

\* login_deepseek_via_account(new_account) of the failover, then attempts += 1
failover_login(s, ok, next_pc) ==
    IF ok THEN [s EXCEPT !.account = s.selected, !.deepseek_token = s.selected,
                         !.selected = NONE, !.attempts = @ + 1, !.pc = next_pc]
    ELSE [s EXCEPT !.selected = NONE, !.attempts = @ + 1, !.pc = next_pc]

Failover(from_pc, login_pc) ==
    /\ req.pc = from_pc
    /\ LET c == choose_new_account(account_queue, in_use_accounts, token,
                                   failover_tried(req))
       IN /\ account_queue' = c.queue
          /\ in_use_accounts' = c.in_use
          /\ req' = failover_choose(req, c.selected, login_pc)
          /\ req_hist' = [req_hist EXCEPT
                !.exhausted = @ \/ c.selected = NONE,
                !.replacements = IF c.selected = NONE THEN @ ELSE @ \cup {c.selected},
                !.refreshes = IF c.selected = NONE THEN NoRefreshes ELSE @,
                !.rejected = IF c.selected = NONE THEN FALSE ELSE @,
                !.outcome = IF c.selected = NONE THEN "none" ELSE @]
    /\ UNCHANGED <<token, others_hold>>
    /\ ReqFrame

CreateSessionFailover == Failover("cs_failover", "cs_login")

CreateSessionLogin ==
    /\ req.pc = "cs_login"
    /\ \E ok \in BOOLEAN :
         /\ req' = [failover_login(req, ok, "cs_post") EXCEPT
                       !.token_refreshed = IF ok THEN FALSE ELSE @]
         /\ token' = IF ok THEN [token EXCEPT ![req.selected] = TRUE] ELSE token
    /\ req_hist' = [req_hist EXCEPT !.outcome = "none"]
    /\ UNCHANGED others_hold
    /\ PoolSame /\ ReqFrame

\* get_pow_response: one pass of the while-loop up to choose_new_account
PowOutcomes == {"exception", "solved", "unsolved", "auth_rejected", "other_failure"}

get_pow_post(s, outcome) ==
    CASE outcome \in {"exception", "unsolved"} -> [s EXCEPT !.attempts = @ + 1]
      [] outcome = "solved" -> [s EXCEPT !.pc = "completion", !.attempts = 0]
      [] OTHER ->
           IF s.use_config_token THEN [s EXCEPT !.pc = "pow_failover"]
           ELSE [s EXCEPT !.attempts = @ + 1]

\* requests.post(pow_url, ...): a challenge is asked of upstream
pow_fetch_Skip(h) == h
pow_fetch(h) == [h EXCEPT !.pow_fetches = @ + 1, !.pow_fresh = TRUE]

\* compute_pow_answer(...) on the challenge of the response in hand
pow_solve(h) == [h EXCEPT !.pow_resolve = @ \/ ~h.pow_fresh, !.pow_fresh = FALSE]

\* the end of a pass: the response is closed or was never there
pow_drop(h) == [h EXCEPT !.pow_fresh = FALSE]

get_pow_hist(h, s, outcome) ==
    LET h1 == pow_fetch(h)
        h2 == IF outcome \in {"solved", "unsolved"} THEN pow_solve(h1)
              ELSE pow_drop(h1)
    IN [h2 EXCEPT
          !.outcome = IF outcome \in {"auth_rejected", "other_failure"}
                         /\ s.use_config_token
                      THEN outcome ELSE "none",
          !.got_pow = (outcome = "solved"),
          !.pow_fetches = IF outcome = "solved" THEN 0 ELSE @]

PowPost ==
    /\ req.pc = "pow_post"
    /\ req.attempts < max_attempts
    /\ \E outcome \in PowOutcomes :
         /\ req' = get_pow_post(req, outcome)
         /\ req_hist' = get_pow_hist(req_hist, req, outcome)
    /\ Local

\* get_pow_response returns None: 401 "Failed to get PoW"
PowGiveUp ==
    /\ req.pc = "pow_post"
    /\ req.attempts >= max_attempts
    /\ req' = Fail(req, 401)
    /\ UNCHANGED req_hist
    /\ Local

PowFailover == Failover("pow_failover", "pow_login")

PowLogin ==
    /\ req.pc = "pow_login"
    /\ \E ok \in BOOLEAN :
         /\ req' = failover_login(req, ok, "pow_post")
         /\ token' = IF ok THEN [token EXCEPT ![req.selected] = TRUE] ELSE token
    /\ req_hist' = [req_hist EXCEPT !.outcome = "none"]
    /\ UNCHANGED others_hold
    /\ PoolSame /\ ReqFrame

\* call_completion_endpoint: one pass of its while-loop; with a response in
\* hand the handler builds the StreamingResponse (stream: req_data["stream"])
call_completion_post(s, outcome, st) ==
    IF outcome = "200"
    THEN [s EXCEPT !.pc = "finally", !.status = 200, !.stream = st, !.attempts = 0]
    ELSE [s EXCEPT !.attempts = @ + 1]

\* deepseek_resp.close()
resp_close_Leak(n) == n
resp_close(n) == n - 1

CompletionOutcomes == {"exception", "not_200", "200"}

call_completion_hist(h, outcome) ==
    [h EXCEPT !.comp_calls = @ + 1,
              !.outcome = IF outcome = "200" THEN "none" ELSE outcome,
              !.unclosed = IF outcome = "not_200" THEN resp_close(@ + 1) ELSE @]

CompletionPost ==
    /\ req.pc = "completion"
    /\ req.attempts < max_attempts
    /\ \E outcome \in CompletionOutcomes, st \in BOOLEAN :
         /\ req' = call_completion_post(req, outcome, st)
         /\ req_hist' = call_completion_hist(req_hist, outcome)
    /\ Local

\* call_completion_endpoint returns None: 500 "Failed to get completion."
CompletionGiveUp ==
    /\ req.pc = "completion"
    /\ req.attempts >= max_attempts
    /\ req' = Fail(req, 500)
    /\ req_hist' = [req_hist EXCEPT !.outcome = "none"]
    /\ Local

\* chat_completions returns (a JSONResponse, or the StreamingResponse whose
\* body has not been produced yet): its finally clause runs cleanup_account
HandlerFinally ==
    /\ req.pc = "finally"
    /\ LET p == cleanup_account(account_queue, in_use_accounts, req) IN
       /\ account_queue' = p.queue
       /\ in_use_accounts' = p.in_use
    /\ req' = [req EXCEPT !.pc = IF req.status = 200 THEN "body" ELSE "done"]
    /\ req_hist' = [req_hist EXCEPT
          !.releases = IF cleanup_releases(req) THEN @ + 1 ELSE @]
    /\ UNCHANGED <<token, others_hold>>
    /\ ReqFrame

\* the response body has been produced (or the client went away): sse_stream
\* ends in its finally clause, which runs cleanup_account
StreamBodyEnd ==
    /\ req.pc = "body"
    /\ req.stream
    /\ LET p == cleanup_account(account_queue, in_use_accounts, req) IN
       /\ account_queue' = p.queue
       /\ in_use_accounts' = p.in_use
    /\ req' = [req EXCEPT !.pc = "done"]
    /\ req_hist' = [req_hist EXCEPT
          !.releases = IF cleanup_releases(req) THEN @ + 1 ELSE @]
    /\ UNCHANGED <<token, others_hold>>
    /\ ReqFrame

\* non-streaming: generate() has yielded the result once collect_data ended
JsonBodyEnd ==
    /\ req.pc = "body"
    /\ ~req.stream
    /\ req' = [req EXCEPT !.pc = "done"]
    /\ UNCHANGED req_hist
    /\ Local

\* the request is over; the next request gets a fresh request.state
NextRequest ==
    /\ req.pc = "done"
    /\ req' = NewRequest
    /\ req_hist' = NewHist
    /\ Local

\* the other requests in flight, by what they do to the pool: a checkout
\* (at admission or in a failover), the release at the end, and the logins
\* and refreshes of the accounts they hold. A checkout with exclude set ex
\* that returns a returns a as well when everything but a is excluded, so
\* these exclude sets give every outcome a checkout can have.
OtherCheckout ==
    /\ \E ex \in {Accounts \ {a} : a \in Accounts} :
         LET c == choose_new_account(account_queue, in_use_accounts, token, ex) IN
         /\ c.selected # NONE
         /\ account_queue' = c.queue
         /\ in_use_accounts' = c.in_use
         /\ others_hold' = others_hold \cup {c.selected}
    /\ UNCHANGED <<token, req, req_hist>>
    /\ ReqFrame

\* the finally clause of another request's handler: cleanup_account; when
\* the handler returned the StreamingResponse of sse_stream, the stream is
\* still to run
OtherRelease ==
    /\ \E a \in others_hold, streaming \in BOOLEAN :
         LET p == release_account(account_queue, in_use_accounts, a) IN
         /\ account_queue' = p.queue
         /\ in_use_accounts' = p.in_use
         /\ others_hold' = others_hold \ {a}
         /\ others_streaming' = IF streaming THEN others_streaming \cup {a}
                                 ELSE others_streaming
    /\ UNCHANGED <<token, req, req_hist>>
    /\ EnvFrame

\* the finally clause of another request's sse_stream: cleanup_account again
OtherStreamEnd ==
    /\ \E a \in others_streaming :
         LET p == release_account(account_queue, in_use_accounts, a) IN
         /\ account_queue' = p.queue
         /\ in_use_accounts' = p.in_use
         /\ others_streaming' = others_streaming \ {a}
    /\ UNCHANGED <<token, others_hold, req, req_hist>>
    /\ EnvFrame

OtherLogin ==
    /\ \E a \in others_hold, ok \in BOOLEAN :
         /\ token[a] # ok
         /\ token' = [token EXCEPT ![a] = ok]
    /\ UNCHANGED <<others_hold, req, req_hist>>
    /\ PoolSame /\ ReqFrame

NextReq ==
    \/ AdmitUnauthorized
    \/ AdmitCallerToken
    \/ AdmitPooled
    \/ AdmitLogin
    \/ ParseBody
    \/ CreateSessionPost
    \/ CreateSessionGiveUp
    \/ CreateSessionRefresh
    \/ CreateSessionFailover
    \/ CreateSessionLogin
    \/ PowPost
    \/ PowGiveUp
    \/ PowFailover
    \/ PowLogin
    \/ CompletionPost
    \/ CompletionGiveUp
    \/ HandlerFinally
    \/ StreamBodyEnd
    \/ JsonBodyEnd
    \/ NextRequest
    \/ OtherCheckout
    \/ OtherRelease
    \/ OtherStreamEnd
    \/ OtherLogin

SpecReq == InitReq /\ [][NextReq]_vars

\* ------------------------------------------------------- claims on SpecPool
MinOf(S) == CHOOSE x \in S : \A y \in S : x <= y
Members(q) == {q[i] : i \in 1..Len(q)}
\* positions of q holding an account whose identifier is not excluded
Eligible(q, ex) == {i \in 1..Len(q) : q[i] \notin ex}
EligibleWithToken(q, ex, tok) == {i \in Eligible(q, ex) : tok[q[i]]}

\* C1: whenever no pool operation is in progress, every configured account is
\* in exactly one of the available queue and the checked-out map, and
\* available + in_use = total = N as get_queue_status reports them.
C1_PoolPartition ==
    queue_lock = NoThread =>
        /\ Partition(account_queue, in_use_accounts)
        /\ get_queue_status.available + get_queue_status.in_use
              = get_queue_status.total
        /\ get_queue_status.total = NAccounts

\* C1 witness: a quiescent pool after checkouts and a release: one account is
\* checked out, and a released one went back to the queue.
C1_Witness ==
    /\ queue_lock = NoThread
    /\ Cardinality(DOMAIN in_use_accounts) = 1
    /\ rr_tracked # {}

\* C3: pool calls take effect atomically: at most one call is inside its
\* critical section, every call found the pool a partition when it took the
\* lock, the entry a checkout scanned is still at its position when it is
\* popped, and the identifier it inserts is not checked out already (no two
\* checkouts in progress return the same account).
C3_AtomicPoolCalls ==
    /\ \A t \in Threads : t_pre[t].partition
    /\ \A t1, t2 \in Threads :
          (t_pc[t1] # "idle" /\ t_pc[t2] # "idle") => t1 = t2
    /\ \A t \in Threads : t_pc[t] # "idle" => queue_lock = t
    /\ \A t \in Threads : t_pc[t] = "choose_pop" =>
          /\ t_i[t] \in 1..Len(account_queue)
          /\ get_account_identifier(account_queue[t_i[t]]) = t_acc_id[t]
    /\ \A t \in Threads : t_pc[t] = "choose_insert" =>
          /\ t_acc_id[t] \notin DOMAIN in_use_accounts
          /\ get_account_identifier(t_selected[t]) = t_acc_id[t]

\* C3 witness: a checkout is half-way (its account is in neither collection)
\* while other accounts are checked out and the other thread is outside.
C3_Witness ==
    \E t \in Threads :
        /\ t_pc[t] = "choose_insert"
        /\ ~Partition(account_queue, in_use_accounts)
        /\ in_use_accounts # EmptyDict
        /\ \E u \in Threads : u # t /\ t_pc[u] = "idle"

\* C4: a checkout returns the first non-excluded account with a token in queue
\* order; only when there is none, the first non-excluded account; the account
\* returned has left the queue and is in the checked-out map.
C4_TokenTierSelection ==
    \A t \in Threads : t_pc[t] = "choose_return" =>
        LET q == t_pre[t].queue
            ex == t_exclude[t]
            tok == t_pre[t].token
            r == t_selected[t]
        IN /\ EligibleWithToken(q, ex, tok) # {} =>
                r = q[MinOf(EligibleWithToken(q, ex, tok))]
           /\ (EligibleWithToken(q, ex, tok) = {} /\ Eligible(q, ex) # {}) =>
                r = q[MinOf(Eligible(q, ex))]
           /\ r # NONE =>
                /\ r \notin Members(account_queue)
                /\ Members(account_queue) = Members(q) \ {r}
                /\ get_account_identifier(r) \in DOMAIN in_use_accounts
                /\ in_use_accounts[get_account_identifier(r)] = r

\* C4 witness: accounts [A(no token), B(has token), ...], no exclusions: the
\* checkout returned B.
C4_Witness ==
    \E t \in Threads :
        /\ t_pc[t] = "choose_return"
        /\ t_exclude[t] = {}
        /\ Len(t_pre[t].queue) >= 2
        /\ ~t_pre[t].token[t_pre[t].queue[1]]
        /\ t_pre[t].token[t_pre[t].queue[2]]
        /\ t_selected[t] = t_pre[t].queue[2]

\* C5 as stated: a checkout with an empty exclude set returns a released account
\* only when every account that was available at its release has been
\* returned by a checkout since.
C5_RoundRobin_Original ==
    \A t \in Threads :
        (/\ t_pc[t] = "choose_return"
         /\ t_exclude[t] = {}
         /\ t_selected[t] \in rr_tracked)
        => rr_waiting[t_selected[t]] = {}

\* C5 amended: ... except that accounts with an empty cached token are passed
\* over when the released account has a non-empty one: the accounts available
\* at A's release and not returned since all have no token while A has one.
C5_RoundRobin_PerTier ==
    \A t \in Threads :
        (/\ t_pc[t] = "choose_return"
         /\ t_exclude[t] = {}
         /\ t_selected[t] \in rr_tracked)
        => \A b \in rr_waiting[t_selected[t]] :
              t_pre[t].token[t_selected[t]] /\ ~t_pre[t].token[b]

\* C5 witness: a released account is returned again ahead of an account that
\* was available at its release and has not been returned since.
C5_Witness ==
    \E t \in Threads :
        /\ t_pc[t] = "choose_return"
        /\ t_exclude[t] = {}
        /\ t_selected[t] \in rr_tracked
        /\ rr_waiting[t_selected[t]] # {}

\* C6: releasing a checked-out account removes it from the checked-out map and
\* puts it at the tail of the queue, the other entries keeping their order.
C6_ReleaseToTail ==
    \A t \in Threads :
        (t_pc[t] = "release_return" /\ t_acc_id[t] \in DOMAIN t_pre[t].in_use) =>
            LET q == t_pre[t].queue IN
            /\ Len(account_queue) = Len(q) + 1
            /\ account_queue[Len(account_queue)] = t_account[t]
            /\ \A i \in 1..Len(q) : account_queue[i] = q[i]
            /\ DOMAIN in_use_accounts = DOMAIN t_pre[t].in_use \ {t_acc_id[t]}
            /\ \A k \in DOMAIN in_use_accounts :
                  in_use_accounts[k] = t_pre[t].in_use[k]

\* C6 witness: a release has completed with an account already available.
C6_Witness ==
    \E t \in Threads :
        /\ t_pc[t] = "release_return"
        /\ t_acc_id[t] \in DOMAIN t_pre[t].in_use
        /\ Len(t_pre[t].queue) >= 1

\* C7: releasing an account whose identifier is not checked out changes
\* neither the queue nor the checked-out map, and the call returns.
C7_ReleaseNotCheckedOutIsNoOp ==
    \A t \in Threads :
        (t_pc[t] \in {"release_del", "release_append", "release_return"}
            /\ t_acc_id[t] \notin DOMAIN t_pre[t].in_use) =>
            /\ t_pc[t] = "release_return"
            /\ account_queue = t_pre[t].queue
            /\ in_use_accounts = t_pre[t].in_use

\* C7 witness: a release of an account that is available (released before, or
\* put back by a reset) has run while another account is checked out.
C7_Witness ==
    \E t \in Threads :
        /\ t_pc[t] = "release_return"
        /\ t_acc_id[t] \notin DOMAIN t_pre[t].in_use
        /\ t_account[t] \in Members(account_queue)
        /\ in_use_accounts # EmptyDict

\* C8: a checkout never returns an excluded account; it returns NONE exactly
\* when no account in the queue is eligible, at once (the call is past its
\* scan and holds no account), leaving the queue and the map unchanged.
C8_ExcludeAndExhaustion ==
    \A t \in Threads :
        /\ (t_pc[t] \in {"choose_pop", "choose_insert", "choose_return"}
              /\ t_selected[t] # NONE) =>
                get_account_identifier(t_selected[t]) \notin t_exclude[t]
        /\ (t_pc[t] \in {"choose_pop", "choose_insert", "choose_return"}
              /\ Eligible(t_pre[t].queue, t_exclude[t]) = {}) =>
                /\ t_pc[t] = "choose_return"
                /\ t_selected[t] = NONE
                /\ account_queue = t_pre[t].queue
                /\ in_use_accounts = t_pre[t].in_use
        /\ (t_pc[t] = "choose_return" /\ t_selected[t] = NONE) =>
                Eligible(t_pre[t].queue, t_exclude[t]) = {}

\* C8 witness: a checkout returned NONE although accounts are available,
\* because all of them are excluded.
C8_Witness ==
    \E t \in Threads :
        /\ t_pc[t] = "choose_return"
        /\ t_selected[t] = NONE
        /\ Len(t_pre[t].queue) >= 1
        /\ t_exclude[t] # {}
        /\ account_queue = t_pre[t].queue

\* -------------------------------------------------------- claims on SpecReq
\* C2: for a pooled request, whatever its outcome, release_account is called
\* exactly once, and only when the request has ended (its response body has
\* been produced), not earlier.
C2_ReleasedOnceAtRequestEnd ==
    req_hist.checked_out =>
        /\ req_hist.releases <= 1
        /\ req.pc = "done" => req_hist.releases = 1
        /\ req_hist.releases >= 1 => req.pc = "done"

\* C9: a request for which a pool checkout returned None (at admission or in
\* a failover) fails with HTTP 429 and with no other status.
C9_ExhaustionIs429 ==
    (req_hist.exhausted /\ req.pc \in {"finally", "body", "done"}) =>
        req.status = 429

\* C10: in pooled mode create_session refreshes the token of the account it
\* holds before it fails over after a token rejection, and within one
\* invocation it attempts the refresh of an account at most once.
C10_RefreshOncePerAccount ==
    /\ \A a \in Accounts : req_hist.refreshes[a] <= 1
    /\ (req.pc = "cs_failover" /\ req_hist.rejected) =>
          req_hist.refreshes[req.account] >= 1

\* C11: within one request the tried set only grows; a failover adds the
\* identifier of the account being replaced to it before it selects, and the
\* account it selects is not in it.
C11_FailoverSkipsTried ==
    [][ /\ (req.use_config_token /\ req'.pc # "start") =>
              req.tried_accounts \subseteq req'.tried_accounts
        /\ (req.pc \in {"cs_failover", "pow_failover"} /\ req' # req) =>
              /\ get_account_identifier(req.account) \in req'.tried_accounts
              /\ req'.selected # NONE =>
                    get_account_identifier(req'.selected) \notin req'.tried_accounts
      ]_vars

\* C11 witness: a failover has selected an account while an account tried
\* before was available in the queue.
C11_Witness ==
    /\ req.pc \in {"cs_login", "pow_login"}
    /\ req.selected # NONE
    /\ req.tried_accounts \cap Members(account_queue) # {}

\* positions inside create_session
CsPcs == {"cs_post", "cs_refresh", "cs_failover", "cs_login"}

\* C12: with a caller-supplied token create_session never calls the pool and
\* never changes the bearer token; every pass of its loop is one upstream
\* call, it has no refresh or failover step, and it returns None only when it
\* has made exactly max_attempts calls.
C12_CallerTokenCreateSession ==
    [][ (~req.use_config_token /\ req.pc \in CsPcs /\ req' # req) =>
          /\ account_queue' = account_queue
          /\ in_use_accounts' = in_use_accounts
          /\ req'.deepseek_token = req.deepseek_token
          /\ req'.pc \in {"cs_post", AfterCreateSession, "finally"}
          /\ req'.pc = "cs_post" => req_hist'.cs_calls = req_hist.cs_calls + 1
          /\ req'.pc = "finally" =>
                /\ req_hist.cs_calls = max_attempts
                /\ req'.status = 401
      ]_vars

\* C12 witness: a request with a caller-supplied token whose create_session
\* returned None after max_attempts failed calls.
C12_Witness ==
    /\ ~req.use_config_token
    /\ req.deepseek_token = CALLER
    /\ req.pc = "finally"
    /\ req.status = 401
    /\ req_hist.cs_calls = max_attempts

\* the request's account, its bearer token and the pool are the same after
\* the step
SameAccountAndPool ==
    /\ req'.account = req.account
    /\ req'.deepseek_token = req.deepseek_token
    /\ account_queue' = account_queue
    /\ in_use_accounts' = in_use_accounts

\* C13 as stated: while create_session or call_completion_endpoint handles a
\* network error or a non-success answer that is not a token rejection, the
\* request's account, its bearer token and the pool do not change.
C13_TransientKeepsAccount_Original ==
    [][ (/\ req.pc \in CsPcs \cup {"completion"}
         /\ req' # req
         /\ req_hist.outcome \in {"exception", "other_failure", "not_200"})
        => SameAccountAndPool ]_vars

\* the failures that the code retries with the same account: a network error
\* of either call, a non-200 answer of the completion call, and any
\* non-success answer of session creation with a caller-supplied token
RetriedInPlace(h, s) ==
    \/ h.outcome \in {"exception", "not_200"}
    \/ h.outcome \in {"other_failure", "token_rejected"} /\ ~s.use_config_token

\* C13 amended: ... of the kinds in RetriedInPlace: the step that meets the
\* failure counts an attempt and stays in the same call, and the steps up to
\* the next call leave account, bearer token and pool unchanged.
C13_TransientKeepsAccount ==
    [][ /\ (/\ req.pc \in CsPcs \cup {"completion"}
            /\ req' # req
            /\ RetriedInPlace(req_hist, req))
           => SameAccountAndPool
        /\ (/\ req.pc \in {"cs_post", "completion"}
            /\ req_hist' # req_hist
            /\ RetriedInPlace(req_hist', req))
           => /\ SameAccountAndPool
              /\ req'.pc = req.pc
              /\ req'.attempts = req.attempts + 1
      ]_vars

\* C13 witness: a pooled request about to retry session creation with its
\* account after a network error.
C13_Witness ==
    /\ req.use_config_token
    /\ req.account # NONE
    /\ req.pc = "cs_post"
    /\ req.attempts >= 1
    /\ req_hist.outcome = "exception"

\* the calls one create_session invocation has made, the one it is about to
\* make included, number at most n
CsCallsAtMost(n) ==
    /\ req_hist.cs_calls <= n
    /\ (req.pc = "cs_post" /\ req.attempts < max_attempts) =>
          req_hist.cs_calls + 1 <= n

\* C14: one create_session invocation makes at most max_attempts upstream
\* session-creation calls before it returns, in pooled and in non-pooled
\* mode, also when token refreshes succeed.
C14_CreateSessionCalls == CsCallsAtMost(max_attempts)

\* C15: the upstream calls of a request come in the order session creation,
\* PoW, completion: PoW is asked for only with a session id in hand, the
\* completion endpoint is called only with a session id and a PoW answer, and
\* a request whose session creation or PoW failed has made no completion call.
C15_CallOrder ==
    /\ req_hist.got_pow => req_hist.got_session
    /\ req_hist.pow_fetches > 0 => req_hist.got_session
    /\ req.pc \in {"pow_post", "pow_failover", "pow_login"} =>
          req_hist.got_session /\ req_hist.comp_calls = 0
    /\ req.pc = "completion" => req_hist.got_session /\ req_hist.got_pow
    /\ req_hist.comp_calls > 0 => req_hist.got_session /\ req_hist.got_pow
    /\ req.pc \in CsPcs => req_hist.pow_fetches = 0 /\ req_hist.comp_calls = 0

\* C15 witness: a request that has called the completion endpoint, with its
\* session id and its PoW answer obtained before.
C15_Witness ==
    /\ req.pc = "completion"
    /\ req_hist.comp_calls >= 1
    /\ req_hist.got_session
    /\ req_hist.got_pow

\* C16: call_completion_endpoint makes at most max_attempts upstream calls,
\* one per pass; it returns at the first 200 response; every non-200 response
\* is closed before the next pass; it returns None only after max_attempts
\* failed calls; and no step of it changes the request's account, its bearer
\* token or the pool.
C16_CompletionEndpoint ==
    /\ [](/\ req_hist.comp_calls <= max_attempts
          /\ req_hist.unclosed = 0
          /\ req.pc = "completion" =>
                /\ req_hist.comp_calls = req.attempts
                /\ req.status # 200)
    /\ [][ (req.pc = "completion" /\ req' # req) =>
              /\ SameAccountAndPool
              /\ req_hist'.outcome = "none" /\ req_hist.comp_calls < max_attempts =>
                    req'.status = 200 /\ req'.pc = "finally"
              /\ req_hist'.outcome # "none" =>
                    req'.pc = "completion" /\ req'.status # 200
              /\ req_hist.comp_calls >= max_attempts =>
                    /\ req_hist.comp_calls = max_attempts
                    /\ req'.pc = "finally" /\ req'.status = 500
         ]_vars

\* C16 witness: call_completion_endpoint returned None after max_attempts
\* calls, one of them answered with a non-200 response.
C16_Witness ==
    /\ req.pc = "finally"
    /\ req.status = 500
    /\ req_hist.comp_calls = max_attempts
    /\ req_hist.got_pow

\* C17: get_pow_response asks upstream for a new challenge before every run
\* of the solver (no challenge goes to the solver twice), makes one fetch per
\* pass and at most max_attempts fetches, and returns None when its attempts
\* are used up.
C17_PowFreshChallenge ==
    /\ ~req_hist.pow_resolve
    /\ req_hist.pow_fetches <= max_attempts
    /\ req.pc = "pow_post" => req_hist.pow_fetches = req.attempts
    /\ req.pc \in {"pow_failover", "pow_login"} =>
          req_hist.pow_fetches = req.attempts + 1
    /\ (/\ req.pc \in {"finally", "done"}
        /\ req.status = 401
        /\ req_hist.got_session
        /\ ~req_hist.exhausted) => req_hist.pow_fetches = max_attempts

\* C17 witness: get_pow_response returned None after max_attempts fetches.
C17_Witness ==
    /\ req.pc = "finally"
    /\ req.status = 401
    /\ req_hist.got_session
    /\ ~req_hist.exhausted
    /\ req_hist.pow_fetches = max_attempts

\* C18: in pooled mode get_pow_response goes to account failover exactly when
\* upstream answered the challenge request with an authentication rejection,
\* and the replacement account is logged in only when it has no cached token.
C18_PowFailoverOnAuthRejection ==
    /\ req.pc \in {"pow_failover", "pow_login"} =>
          req_hist.outcome = "auth_rejected"
    /\ (req.use_config_token /\ req_hist.outcome = "auth_rejected") =>
          req.pc \in {"pow_failover", "pow_login"}
    /\ req.pc = "pow_login" => ~has_token(token, req.selected)

\* --------------------------------------------------------------- SpecWasm
\* _get_cached_wasm_module(wasm_path) called by concurrent threads, one step
\* per read or write of the module globals
InitWasm ==
    /\ token = [a \in Accounts |-> FALSE]
    /\ account_queue = SortByToken(CONFIG_accounts, token)
    /\ in_use_accounts = EmptyDict
    /\ ThreadsIdle
    /\ ReqIdle
    /\ RestIdle

WasmFrame == UNCHANGED <<poolVars, thrVars, histVars, reqVars, reqHist, sseVars,
    colVars,
    tcVars,
    mpVars,
    ssVars>>

\* the with-block is left (by return or by raise): the lock is released
wasm_release(t) == IF wasm_cache_lock = t THEN NoThread ELSE wasm_cache_lock

\* "if _wasm_module is not None" under the lock (the second check)
second_check_Absent(m) == FALSE
second_check(m) == m # NoInstance

\* line 28: the first check, made without the lock
WasmCheck(t) ==
    /\ w_pc[t] = "idle"
    /\ w_pc' = [w_pc EXCEPT ![t] =
                   IF wasm_module # NoInstance THEN "return_engine" ELSE "acquire"]
    /\ UNCHANGED <<wasm_engine, wasm_module, wasm_cache_lock, w_ret,
                   w_created, w_compiled, w_returned>>
    /\ WasmFrame

\* with _wasm_cache_lock
WasmAcquire(t) ==
    /\ w_pc[t] = "acquire"
    /\ wasm_cache_lock = NoThread
    /\ wasm_cache_lock' = t
    /\ w_pc' = [w_pc EXCEPT ![t] = "check2"]
    /\ UNCHANGED <<wasm_engine, wasm_module, w_ret, w_created, w_compiled,
                   w_returned>>
    /\ WasmFrame

\* line 33: the second check
WasmCheck2(t) ==
    /\ w_pc[t] = "check2"
    /\ w_pc' = [w_pc EXCEPT ![t] =
                   IF second_check(wasm_module) THEN "return_engine" ELSE "open"]
    /\ UNCHANGED <<wasm_engine, wasm_module, wasm_cache_lock, w_ret,
                   w_created, w_compiled, w_returned>>
    /\ WasmFrame

\* open(wasm_path, "rb") ... f.read(): it works, or raises and the call ends
\* in RuntimeError
WasmOpen(t) ==
    /\ w_pc[t] = "open"
    /\ \E ok \in BOOLEAN :
         /\ w_pc' = [w_pc EXCEPT ![t] = IF ok THEN "engine" ELSE "raised"]
         /\ wasm_cache_lock' = IF ok THEN wasm_cache_lock ELSE wasm_release(t)
    /\ UNCHANGED <<wasm_engine, wasm_module, w_ret, w_created, w_compiled,
                   w_returned>>
    /\ WasmFrame

\* _wasm_engine = Engine()
WasmEngine(t) ==
    /\ w_pc[t] = "engine"
    /\ w_created < MaxEngines
    /\ w_created' = w_created + 1
    /\ wasm_engine' = w_created + 1
    /\ w_pc' = [w_pc EXCEPT ![t] = "module"]
    /\ UNCHANGED <<wasm_module, wasm_cache_lock, w_ret, w_compiled, w_returned>>
    /\ WasmFrame

\* _wasm_module = Module(_wasm_engine, wasm_bytes): it compiles, or raises
WasmModule(t) ==
    /\ w_pc[t] = "module"
    /\ \E ok \in BOOLEAN :
         /\ wasm_module' = IF ok THEN wasm_engine ELSE wasm_module
         /\ w_compiled' = IF ok THEN w_compiled + 1 ELSE w_compiled
         /\ w_pc' = [w_pc EXCEPT ![t] = IF ok THEN "unlock" ELSE "raised"]
         /\ wasm_cache_lock' = IF ok THEN wasm_cache_lock ELSE wasm_release(t)
    /\ UNCHANGED <<wasm_engine, w_ret, w_created, w_returned>>
    /\ WasmFrame

\* the with-block ends; line 46 follows, outside the lock
WasmUnlock(t) ==
    /\ w_pc[t] = "unlock"
    /\ wasm_cache_lock' = wasm_release(t)
    /\ w_pc' = [w_pc EXCEPT ![t] = "return_engine"]
    /\ UNCHANGED <<wasm_engine, wasm_module, w_ret, w_created, w_compiled,
                   w_returned>>
    /\ WasmFrame

\* return _wasm_engine, _wasm_module: the first global is read
WasmReadEngine(t) ==
    /\ w_pc[t] = "return_engine"
    /\ w_ret' = [w_ret EXCEPT ![t].engine = wasm_engine]
    /\ w_pc' = [w_pc EXCEPT ![t] = "return_module"]
    /\ UNCHANGED <<wasm_engine, wasm_module, wasm_cache_lock, w_created,
                   w_compiled, w_returned>>
    /\ WasmFrame

\* ... the second global is read and the call returns the pair
WasmReadModule(t) ==
    /\ w_pc[t] = "return_module"
    /\ w_ret' = [w_ret EXCEPT ![t].module = wasm_module]
    /\ w_returned' = w_returned \cup {[w_ret[t] EXCEPT !.module = wasm_module]}
    /\ wasm_cache_lock' = wasm_release(t)
    /\ w_pc' = [w_pc EXCEPT ![t] = "returned"]
    /\ UNCHANGED <<wasm_engine, wasm_module, w_created, w_compiled>>
    /\ WasmFrame

\* the caller goes on; the thread may call again
WasmDone(t) ==
    /\ w_pc[t] \in {"returned", "raised"}
    /\ w_pc' = [w_pc EXCEPT ![t] = "idle"]
    /\ w_ret' = [w_ret EXCEPT ![t] = NoPair]
    /\ UNCHANGED <<wasm_engine, wasm_module, wasm_cache_lock, w_created,
                   w_compiled, w_returned>>
    /\ WasmFrame

NextWasm ==
    \/ \E t \in Threads : WasmCheck(t)
    \/ \E t \in Threads : WasmAcquire(t)
    \/ \E t \in Threads : WasmCheck2(t)
    \/ \E t \in Threads : WasmOpen(t)
    \/ \E t \in Threads : WasmEngine(t)
    \/ \E t \in Threads : WasmModule(t)
    \/ \E t \in Threads : WasmUnlock(t)
    \/ \E t \in Threads : WasmReadEngine(t)
    \/ \E t \in Threads : WasmReadModule(t)
    \/ \E t \in Threads : WasmDone(t)

SpecWasm == InitWasm /\ [][NextWasm]_vars

\* C19: the module is compiled with success at most once, nothing is loaded
\* after that, and all the calls that return give the same engine and module
\* instances, the module being the one compiled for the engine.
C19_WasmLoadedOnce ==
    /\ w_compiled <= 1
    /\ w_compiled = 1 =>
          /\ wasm_module # NoInstance
          /\ wasm_module = wasm_engine
          /\ \A t \in Threads : w_pc[t] \notin {"open", "engine", "module"}
    /\ Cardinality(w_returned) <= 1
    /\ \A pr \in w_returned : pr.engine # NoInstance /\ pr.module = pr.engine

\* C19 witness: after a load that failed in Module(), two concurrent calls
\* have returned.
C19_Witness ==
    /\ w_created >= 2
    /\ \A t \in Threads : w_pc[t] = "returned"
    /\ w_returned # {}

\* ---------------------------------------------------------------- SpecSse
\* A chunk is the dict of one SSE line: has_v ("v" in chunk), p (chunk.get("p",
\* "")), vtype (the Python type of chunk["v"]), s (a string value), items (a
\* list value).  An item of a list value is a dict whose keys are given by its
\* form: "desc" has type and content, "pv" has p and a string v, "batch" has
\* p, o and a list v of fragment descriptors, "search" has url and title.

\* the paths that occur in the chunks and items fed
Paths ==
    {"", "response", "response/content", "response/thinking_content",
     "response/fragments", "response/fragments/-1/content",
     "response/fragments/-1/status", "response/status",
     "response/search_status", "status", "fragments", "quasi_status",
     "thinking_content", "content", "accumulated_token_usage", "elapsed_secs",
     "response/fragments/-2/status"}

\* the paths of Paths that have kw as a substring
PathsWith(kw) ==
    CASE kw = "quasi_status" -> {"quasi_status"}
      [] kw = "elapsed_secs" -> {"elapsed_secs"}
      [] kw = "token_usage" -> {"accumulated_token_usage"}
      [] kw = "fragments/-1/status" -> {"response/fragments/-1/status"}
      [] kw = "fragments/-2/status" -> {"response/fragments/-2/status"}
      [] kw = "response/fragments" ->
            {"response/fragments", "response/fragments/-1/content",
             "response/fragments/-1/status", "response/fragments/-2/status"}
      [] kw = "/content" -> {"response/content", "response/fragments/-1/content"}
      [] kw = "thinking" -> {"response/thinking_content", "thinking_content"}
      [] kw = "content" ->
            {"response/content", "response/thinking_content",
             "response/fragments/-1/content", "thinking_content", "content"}
      [] OTHER -> {}

\* Python "kw in path"
Contains(kw, path) == path \in PathsWith(kw)

SKIP_PATTERNS ==
    {"quasi_status", "elapsed_secs", "token_usage", "pending_fragment",
     "conversation_mode", "fragments/-1/status", "fragments/-2/status",
     "fragments/-3/status"}

\* the type tags of the fragment descriptors fed, and str.upper() on them
FragTypes == {"THINK", "thinking", "RESPONSE", "SEARCH"}
Upper(str) ==
    CASE str = "thinking" -> "THINKING"
      [] OTHER -> str

\* fragment descriptors: each tag with content, and one without content
Descriptors ==
    [type : FragTypes, content : {"a"}] \cup {[type |-> "THINK", content |-> ""]}
FragLists == UNION {[1..k -> Descriptors] : k \in 1..MaxFrags}

Item(form, type, content, item_p, o, str, frags) ==
    [form |-> form, type |-> type, content |-> content, p |-> item_p, o |-> o,
     s |-> str, frags |-> frags, search |-> form = "search"]
DescItem(d) == Item("desc", d.type, d.content, "", "", "", <<>>)
BatchItem(o, frags) == Item("batch", "", "", "fragments", o, "", frags)
PvItem(item_p, str) == Item("pv", "", "", item_p, "", str, <<>>)
SearchItem == Item("search", "", "", "", "", "", <<>>)
\* the item with the keys "url" and "title" added
WithUrlTitle(item) == [item EXCEPT !.search = TRUE]

StrChunk(chunk_path, str) ==
    [has_v |-> TRUE, p |-> chunk_path, vtype |-> "str", s |-> str, items |-> <<>>]
ListChunk(chunk_path, items) ==
    [has_v |-> TRUE, p |-> chunk_path, vtype |-> "list", s |-> "", items |-> items]
DictChunk == [has_v |-> TRUE, p |-> "", vtype |-> "dict", s |-> "", items |-> <<>>]
DescItems(f) == [i \in 1..Len(f) |-> DescItem(f[i])]

\* the chunks the upstream may send
Chunks ==
    {NoChunk, DictChunk, ListChunk("", <<SearchItem>>)}
    \cup {StrChunk(chunk_path, str) :
            chunk_path \in {"", "response/content", "response/thinking_content",
                            "response/fragments/-1/content", "response/status",
                            "status", "response/search_status",
                            "response/fragments/-1/status",
                            "response/fragments/-2/status", "quasi_status",
                            "accumulated_token_usage", "elapsed_secs"},
            str \in {"", "a", "FINISHED"}}
    \cup {ListChunk("response/fragments", DescItems(f)) : f \in FragLists}
    \cup {ListChunk("response", <<BatchItem("APPEND", f)>>) : f \in FragLists}
    \cup {ListChunk("", <<DescItem(d)>>) : d \in Descriptors}
    \cup {ListChunk("response", <<BatchItem("SET", <<d>>)>>) : d \in Descriptors}
    \cup {ListChunk("response", <<BatchItem("APPEND", <<d>>), PvItem("status", "FINISHED")>>) :
            d \in Descriptors}
    \cup {ListChunk(chunk_path, <<PvItem(item_p, str)>>) :
            chunk_path \in {"", "response"},
            item_p \in {"status", "quasi_status", "thinking_content", "content",
                        "response/status", "accumulated_token_usage",
                        "elapsed_secs", "response/search_status",
                        "response/fragments/-1/status"},
            str \in {"a", "FINISHED"}}
    \cup {ListChunk(chunk_path, <<PvItem("status", "FINISHED")>>) :
            chunk_path \in {"response/search_status", "quasi_status"}}
    \cup {ListChunk("response", <<PvItem("content", "a"), PvItem(item_p, "FINISHED")>>) :
            item_p \in {"status", "quasi_status", "response/status"}}
    \cup {ListChunk("response", <<PvItem(item_p, "FINISHED"), PvItem("content", "a")>>) :
            item_p \in {"status", "quasi_status", "response/status"}}
    \cup {ListChunk(chunk_path, <<WithUrlTitle(item)>> \o rest) :
            chunk_path \in {"", "response"},
            item \in {SearchItem, PvItem("status", "FINISHED"), PvItem("content", "a"),
                      DescItem([type |-> "THINK", content |-> "a"]),
                      BatchItem("APPEND", <<[type |-> "RESPONSE", content |-> "a"]>>)},
            rest \in {<<>>, <<PvItem("content", "a")>>}}

should_skip_chunk_SearchOnly(chunk_path) == chunk_path = "response/search_status"
should_skip_chunk(chunk_path) ==
    \/ chunk_path = "response/search_status"
    \/ \E kw \in SKIP_PATTERNS : Contains(kw, chunk_path)

is_response_finished(chunk_path, chunk) ==
    chunk_path = "response/status" /\ chunk.vtype = "str" /\ chunk.s = "FINISHED"

is_finished_signal_EmptyOnly(chunk_path, v_value) ==
    v_value = "FINISHED" /\ chunk_path = ""
is_finished_signal(chunk_path, v_value) ==
    v_value = "FINISHED" /\ (chunk_path = "" \/ chunk_path = "status")

is_search_result_Never(item) == FALSE
is_search_result(item) == item.search

\* the kind a type tag stands for, or otherwise when it is none of the three
fragment_type_of(frag_type, otherwise) ==
    LET inner_type == Upper(frag_type)
    IN  IF inner_type = "THINK" \/ inner_type = "THINKING" THEN "thinking"
        ELSE IF inner_type = "RESPONSE" THEN "text"
        ELSE otherwise

\* the result is a list of at most one (content, kind); None is the empty list
extract_content_from_item(item, default_type) ==
    IF item.form = "desc" /\ item.content # ""
    THEN <<[content |-> item.content,
            kind |-> fragment_type_of(item.type, default_type)]>>
    ELSE <<>>

\* extract_content_recursive, lines 131-136
item_content_type(item_p, default_type) ==
    IF Contains("thinking", item_p) THEN "thinking"
    ELSE IF Contains("content", item_p) \/ item_p = "response" \/ item_p = "fragments"
    THEN "text"
    ELSE default_type

\* extract_content_recursive, lines 144-158
inner_contents(frags, content_type) ==
    LET filled == SelectSeq(frags, LAMBDA d : d.content # "")
    IN  [i \in 1..Len(filled) |->
            [content |-> filled[i].content,
             kind |-> fragment_type_of(filled[i].type, content_type)]]

\* extract_content_recursive, lines 125-160: what one item adds
item_contents(item, default_type) ==
    LET result == extract_content_from_item(item, default_type)
        content_type == item_content_type(item.p, default_type)
    IN  IF result # <<>> THEN result
        ELSE IF item.form = "pv"
        THEN IF item.s # "" /\ item.s # "FINISHED"
             THEN <<[content |-> item.s, kind |-> content_type]>>
             ELSE <<>>
        ELSE IF item.form = "batch" THEN inner_contents(item.frags, content_type)
        ELSE <<>>

\* none is the return of None (the end signal was met)
RECURSIVE extract_content_recursive(_, _)
extract_content_recursive(items, default_type) ==
    IF items = <<>> THEN [none |-> FALSE, extracted |-> <<>>]
    ELSE LET item == Head(items)
             rest == extract_content_recursive(Tail(items), default_type)
         IN  IF is_search_result(item) THEN rest
             ELSE IF item.form = "pv" /\ item.p = "status" /\ item.s = "FINISHED"
             THEN [none |-> TRUE, extracted |-> <<>>]
             ELSE IF should_skip_chunk(item.p) THEN rest
             ELSE IF rest.none THEN rest
             ELSE [none |-> FALSE,
                   extracted |-> item_contents(item, default_type) \o rest.extracted]

\* the loops of lines 209-215 and 219-225 over a list of type tags
RECURSIVE scan_fragments(_, _)
scan_fragments(types, new_fragment_type) ==
    IF types = <<>> THEN new_fragment_type
    ELSE scan_fragments(Tail(types), fragment_type_of(Head(types), new_fragment_type))

\* lines 206-208: the tags of the fragments of the APPEND items of a batch
RECURSIVE append_types(_)
append_types(items) ==
    IF items = <<>> THEN <<>>
    ELSE LET batch_item == Head(items)
         IN  (IF batch_item.p = "fragments" /\ batch_item.o = "APPEND"
              THEN [i \in 1..Len(batch_item.frags) |-> batch_item.frags[i].type]
              ELSE <<>>) \o append_types(Tail(items))

\* frag.get("type", "") of the items of a list value
direct_types(items) ==
    [i \in 1..Len(items) |-> IF items[i].form = "desc" THEN items[i].type ELSE ""]

\* lines 235-240
empty_path_ptype_Text(thinking_enabled, new_fragment_type) == "text"
empty_path_ptype(thinking_enabled, new_fragment_type) ==
    IF thinking_enabled THEN new_fragment_type ELSE "text"

\* lines 228-231: the two paths that name their kind; otherwise is the kind
\* the later branches give
explicit_ptype_Ignored(chunk_path, otherwise) == otherwise
explicit_ptype(chunk_path, otherwise) ==
    IF chunk_path = "response/thinking_content" THEN "thinking"
    ELSE IF chunk_path = "response/content" THEN "text"
    ELSE otherwise

Result(contents, is_finished, new_fragment_type) ==
    [contents |-> contents, is_finished |-> is_finished,
     new_fragment_type |-> new_fragment_type]

parse_sse_chunk_for_content(chunk, thinking_enabled, current_fragment_type) ==
    LET chunk_path == chunk.p
        is_list == chunk.vtype = "list"
        batch_type ==
            IF chunk_path = "response" /\ is_list
            THEN scan_fragments(append_types(chunk.items), current_fragment_type)
            ELSE current_fragment_type
        new_fragment_type ==
            IF Contains("response/fragments", chunk_path) /\ is_list
            THEN scan_fragments(direct_types(chunk.items), batch_type)
            ELSE batch_type
        ptype ==
            explicit_ptype(chunk_path,
                IF Contains("response/fragments", chunk_path)
                   /\ Contains("/content", chunk_path)
                THEN new_fragment_type
                ELSE IF chunk_path = ""
                THEN empty_path_ptype(thinking_enabled, new_fragment_type)
                ELSE "text")
    IN  IF ~chunk.has_v THEN Result(<<>>, FALSE, current_fragment_type)
        ELSE IF should_skip_chunk(chunk_path)
        THEN Result(<<>>, FALSE, current_fragment_type)
        ELSE IF is_response_finished(chunk_path, chunk)
        THEN Result(<<>>, TRUE, current_fragment_type)
        ELSE IF chunk.vtype = "str"
        THEN IF is_finished_signal(chunk_path, chunk.s)
             THEN Result(<<>>, TRUE, new_fragment_type)
             ELSE Result(IF chunk.s # "" THEN <<[content |-> chunk.s, kind |-> ptype]>>
                         ELSE <<>>, FALSE, new_fragment_type)
        ELSE IF is_list
        THEN LET result == extract_content_recursive(chunk.items, ptype)
             IN  IF result.none THEN Result(<<>>, TRUE, new_fragment_type)
                 ELSE Result(result.extracted, FALSE, new_fragment_type)
        ELSE Result(<<>>, FALSE, new_fragment_type)

\* --- what the statements about the decoder speak of
ThinkTags == {"THINK", "thinking"}
ResponseTags == {"RESPONSE"}
Tagged(d) == d.type \in ThinkTags \cup ResponseTags
TagKind(d) == IF d.type \in ThinkTags THEN "thinking" ELSE "text"

\* the fragment descriptors of a fragments-append chunk, in order: the list
\* value of a chunk with path response/fragments, or the fragments of the
\* APPEND items of a batch on path response; <<>> for any other chunk
RECURSIVE AppendedIn(_)
AppendedIn(items) ==
    IF items = <<>> THEN <<>>
    ELSE (IF Head(items).form = "batch" /\ Head(items).o = "APPEND"
          THEN Head(items).frags ELSE <<>>) \o AppendedIn(Tail(items))
Appended(chunk) ==
    IF chunk.vtype # "list" THEN <<>>
    ELSE IF chunk.p = "response/fragments"
    THEN [i \in 1..Len(chunk.items) |->
             [type |-> chunk.items[i].type, content |-> chunk.items[i].content]]
    ELSE IF chunk.p = "response" THEN AppendedIn(chunk.items)
    ELSE <<>>
\* the kind of the last tagged descriptor a chunk appends, "none" without one
LastTag(chunk) ==
    LET tagged == SelectSeq(Appended(chunk), Tagged)
    IN  IF tagged = <<>> THEN "none" ELSE TagKind(tagged[Len(tagged)])
\* a chunk that is one fragments-append and nothing else (no item of it is
\* a search-result record)
PureAppend(chunk) ==
    /\ Appended(chunk) # <<>>
    /\ chunk.p = "response" => Len(chunk.items) = 1
    /\ \A i \in 1..Len(chunk.items) : ~chunk.items[i].search
\* the chunk carries a fragment tag anywhere
HasTag(chunk) ==
    \E i \in 1..Len(chunk.items) :
        \/ chunk.items[i].form = "desc" /\ Tagged(chunk.items[i])
        \/ \E j \in 1..Len(chunk.items[i].frags) : Tagged(chunk.items[i].frags[j])

\* the chunk appends a fragment of type RESPONSE: in a list on a path with
\* response/fragments, or in an APPEND item of a batch on path response
ResponseAppears(chunk) ==
    /\ chunk.has_v
    /\ chunk.vtype = "list"
    /\ ~should_skip_chunk(chunk.p)
    /\ \/ /\ Contains("response/fragments", chunk.p)
          /\ \E i \in 1..Len(chunk.items) :
                direct_types(chunk.items)[i] \in ResponseTags
       \/ /\ chunk.p = "response"
          /\ \E i \in 1..Len(append_types(chunk.items)) :
                append_types(chunk.items)[i] \in ResponseTags

InitSse ==
    /\ token = [a \in Accounts |-> FALSE]
    /\ account_queue = SortByToken(CONFIG_accounts, token)
    /\ in_use_accounts = EmptyDict
    /\ ThreadsIdle
    /\ ReqIdle
    /\ RestIdle

SseFrame == UNCHANGED <<poolVars, thrVars, histVars, reqVars, reqHist, wasmVars,
    colVars,
    tcVars,
    mpVars,
    ssVars>>

\* collect_data / sse_stream start reading a response:
\* current_fragment_type = "thinking" if thinking_enabled else "text"
SseStart ==
    /\ sse_pc = "idle"
    /\ \E thinking_enabled \in BOOLEAN :
         /\ sse_thinking_enabled' = thinking_enabled
         /\ sse_current' = IF thinking_enabled THEN "thinking" ELSE "text"
         /\ sse_passed' = IF thinking_enabled THEN "thinking" ELSE "text"
    /\ sse_pc' = "stream"
    /\ UNCHANGED <<sse_called, sse_chunk, sse_result, sse_tag_seen,
                   sse_response_started>>
    /\ SseFrame

\* one chunk is parsed and the returned kind is kept for the next call
SseFeed ==
    /\ sse_pc = "stream"
    /\ \E chunk \in Chunks :
         LET r == parse_sse_chunk_for_content(chunk, sse_thinking_enabled, sse_current)
         IN  /\ sse_called' = TRUE
             /\ sse_chunk' = chunk
             /\ sse_passed' = sse_current
             /\ sse_result' = r
             /\ sse_current' = r.new_fragment_type
             /\ sse_pc' = IF r.is_finished THEN "finished" ELSE "stream"
             /\ sse_tag_seen' = IF LastTag(chunk) # "none" THEN LastTag(chunk)
                                ELSE sse_tag_seen
             /\ sse_response_started' = (sse_response_started \/ ResponseAppears(chunk))
    /\ UNCHANGED sse_thinking_enabled
    /\ SseFrame

\* the stream ends: is_finished, [DONE], or the lines run out
SseEnd ==
    /\ sse_pc \in {"stream", "finished"}
    /\ sse_pc' = "idle"
    /\ sse_thinking_enabled' = FALSE
    /\ sse_current' = "text"
    /\ sse_called' = FALSE
    /\ sse_chunk' = NoChunk
    /\ sse_passed' = "text"
    /\ sse_result' = NoResult
    /\ sse_tag_seen' = "none"
    /\ sse_response_started' = FALSE
    /\ SseFrame

NextSse ==
    \/ SseStart
    \/ SseFeed
    \/ SseEnd

SpecSse == InitSse /\ [][NextSse]_vars

\* what the tagged descriptors of a list emit: (content, kind of the tag) for
\* each one that has content
TagEmits(f) ==
    LET filled == SelectSeq(f, LAMBDA d : d.content # "")
    IN  [i \in 1..Len(filled) |->
            [content |-> filled[i].content, kind |-> TagKind(filled[i])]]
AllTagged(f) == \A i \in 1..Len(f) : Tagged(f[i])

\* C20 (a): a fragments-append chunk emits the content of its tagged
\* descriptors with the kind of their tags, and the carry-over becomes the
\* kind of its last tag
C20_AppendSetsKind ==
    sse_called /\ PureAppend(sse_chunk) =>
        /\ LastTag(sse_chunk) # "none" =>
              sse_result.new_fragment_type = LastTag(sse_chunk)
        /\ AllTagged(Appended(sse_chunk)) =>
              sse_result.contents = TagEmits(Appended(sse_chunk))
        /\ ~sse_result.is_finished
\* C20 (c): a chunk without a fragment tag leaves the carry-over unchanged, so
\* the carry-over is the kind most recently set by a tag
C20_UntaggedKeeps ==
    /\ sse_called /\ ~HasTag(sse_chunk) => sse_result.new_fragment_type = sse_passed
    /\ sse_called => sse_current = sse_result.new_fragment_type
    /\ sse_tag_seen # "none" => sse_current = sse_tag_seen

OwnKind(item) ==
    \/ item.form = "desc" /\ Tagged(item)
    \/ item.p \in {"thinking_content", "content"}

EndsStream == sse_result.is_finished /\ sse_result.contents = <<>>
\* the paths of Paths whose last segment is "status"
StatusSuffix ==
    {"status", "response/status", "response/fragments/-1/status",
     "response/fragments/-2/status"}
\* the three end-of-stream forms on string values
StringEndForm(chunk) ==
    /\ chunk.vtype = "str"
    /\ chunk.s = "FINISHED"
    /\ chunk.p \in {"response/status", "", "status"}

\* C21 as stated: response/status with FINISHED, a string FINISHED on an
\* empty or "status" path, and a list value with any element whose path ends
\* in "status" and whose value is FINISHED, each return is_finished with zero
\* fragments.
C21_EndOfStream_Original ==
    sse_called =>
        /\ StringEndForm(sse_chunk) => EndsStream
        /\ (sse_chunk.vtype = "list"
            /\ \E i \in 1..Len(sse_chunk.items) :
                  /\ sse_chunk.items[i].form = "pv"
                  /\ sse_chunk.items[i].p \in StatusSuffix
                  /\ sse_chunk.items[i].s = "FINISHED") => EndsStream

\* an element of a list value that ends the stream: its path is exactly
\* "status", its value FINISHED, and it is not a search-result record
EndItem(item) ==
    item.form = "pv" /\ item.p = "status" /\ item.s = "FINISHED" /\ ~item.search
\* the paths of Paths that are discarded as status or bookkeeping
SkippedPaths ==
    {"response/search_status", "quasi_status", "accumulated_token_usage",
     "elapsed_secs", "response/fragments/-1/status",
     "response/fragments/-2/status"}
ListEndForm(chunk) ==
    /\ chunk.vtype = "list"
    /\ chunk.p \notin SkippedPaths
    /\ \E i \in 1..Len(chunk.items) : EndItem(chunk.items[i])

\* C21 amended: the two string forms, and a list value (of a chunk whose own
\* path is not a discarded one) with an element whose path is exactly "status"
\* and whose value is FINISHED, return is_finished with zero fragments, the
\* content of the other elements being dropped; nothing else ends the stream:
\* an element FINISHED on response/status or quasi_status does not.
C21_EndOfStream ==
    sse_called =>
        /\ StringEndForm(sse_chunk) \/ ListEndForm(sse_chunk) => EndsStream
        /\ sse_result.is_finished =>
              StringEndForm(sse_chunk) \/ ListEndForm(sse_chunk)
        /\ sse_pc = "finished" <=> sse_result.is_finished

\* C21 witness: a batch with a content element before the element FINISHED on
\* path "status" ended the stream with no fragment.
C21_Witness ==
    /\ sse_called
    /\ sse_chunk = ListChunk("response", <<PvItem("content", "a"), PvItem("status", "FINISHED")>>)
    /\ EndsStream
    /\ sse_pc = "finished"

\* the paths of Paths that carry no explicit kind: the empty path and the
\* fragment-relative content path
KindlessPaths == {"", "response/fragments/-1/content"}

\* C22: with thinking disabled, every fragment emitted for a chunk whose path
\* carries no explicit kind has kind text, whatever the carry-over kind
\* (stated on string values, where the kind comes from the path alone).
C22_DisabledIsText ==
    (sse_called /\ ~sse_thinking_enabled /\ sse_chunk.vtype = "str"
     /\ sse_chunk.p \in KindlessPaths) =>
        \A i \in 1..Len(sse_result.contents) : sse_result.contents[i].kind = "text"

\* what a string value emits when its path names the kind
EmitsAs(kind) ==
    /\ sse_result.contents =
          IF sse_chunk.s = "" THEN <<>>
          ELSE <<[content |-> sse_chunk.s, kind |-> kind]>>
    /\ ~sse_result.is_finished
    /\ sse_result.new_fragment_type = sse_passed

\* C23: a string-valued chunk on path response/thinking_content is emitted as
\* thinking and one on path response/content as text, whatever the carry-over
\* kind passed in and the thinking-enabled flag.
C23_ExplicitPathKind ==
    sse_called /\ sse_chunk.vtype = "str" =>
        /\ sse_chunk.p = "response/thinking_content" => EmitsAs("thinking")
        /\ sse_chunk.p = "response/content" => EmitsAs("text")

\* C23 witness: with thinking disabled and carry-over text, a string on
\* response/thinking_content was emitted as thinking.
C23_Witness ==
    /\ sse_called
    /\ ~sse_thinking_enabled
    /\ sse_passed = "text"
    /\ sse_chunk = StrChunk("response/thinking_content", "a")
    /\ sse_result.contents = <<[content |-> "a", kind |-> "thinking"]>>

\* the chunk without the items of its list value whose path is a discarded one
WithoutSkipped(chunk) ==
    [chunk EXCEPT !.items = SelectSeq(chunk.items, LAMBDA item : item.p \notin SkippedPaths)]

WithoutSearch(chunk) ==
    [chunk EXCEPT !.items = SelectSeq(chunk.items, LAMBDA item : ~item.search)]

\* C25: in a list-valued chunk an item with both "url" and "title" adds no
\* fragment, whatever other keys it has, and has no part in is_finished: the
\* fragments and is_finished are those of the chunk without such items.
C25_SearchResultIgnored ==
    sse_called /\ sse_chunk.vtype = "list" =>
        /\ LET r == parse_sse_chunk_for_content(
                        WithoutSearch(sse_chunk), sse_thinking_enabled, sse_passed)
           IN  /\ sse_result.contents = r.contents
               /\ sse_result.is_finished = r.is_finished
        /\ (sse_chunk.p \in {"", "response"}
            /\ \A i \in 1..Len(sse_chunk.items) : sse_chunk.items[i].search) =>
              sse_result.contents = <<>> /\ ~sse_result.is_finished

\* C25 witness: a search-result record that also has p "status" and v FINISHED,
\* before a content item: the content was emitted and the stream went on.
C25_Witness ==
    /\ sse_called
    /\ sse_chunk = ListChunk("response", <<WithUrlTitle(PvItem("status", "FINISHED")),
                                           PvItem("content", "a")>>)
    /\ sse_result.contents = <<[content |-> "a", kind |-> "text"]>>
    /\ ~sse_result.is_finished

\* ------------------------------------------------------------ SpecCollect
\* lines a response may hold at most (SpecCollect)
MaxLines == 3

\* the chunks of the lines read
CollectBodies ==
    {NoChunk, DictChunk,
     StrChunk("response/content", "a"), StrChunk("response/content", ""),
     StrChunk("response/thinking_content", "b"), StrChunk("", "a"),
     StrChunk("response/search_status", "a"),
     StrChunk("response/status", "FINISHED"),
     ListChunk("response", <<PvItem("status", "FINISHED")>>),
     ListChunk("response", <<PvItem("content", "a")>>)}
CollectLines ==
    {NoLine, Line(FALSE, TRUE, FALSE, "", NoChunk)}
    \cup {Line(FALSE, FALSE, error, code, body) :
            error \in BOOLEAN, code \in {"", "content_filter"},
            body \in {NoChunk, StrChunk("response/content", "a")}}
    \cup {Line(FALSE, FALSE, FALSE, "", body) : body \in CollectBodies}

\* line 276: "error" in chunk or chunk.get("code") == "content_filter"
is_content_filter_Never(chunk) == FALSE
is_content_filter(chunk) == chunk.error \/ chunk.code = "content_filter"

extract_content_from_chunk(chunk) ==
    LET body == chunk.body
        ptype == IF body.p = "response/thinking_content" THEN "thinking" ELSE "text"
    IN  IF chunk.done THEN Extract("", "text", TRUE)
        ELSE IF is_content_filter(chunk) THEN Extract("", "text", TRUE)
        ELSE IF ~body.has_v THEN Extract("", "text", FALSE)
        ELSE IF body.p = "response/search_status" THEN Extract("", "text", FALSE)
        ELSE IF body.vtype = "str"
        THEN IF body.s = "FINISHED" THEN Extract("", ptype, TRUE)
             ELSE Extract(body.s, ptype, FALSE)
        ELSE IF body.vtype = "list"
        THEN Extract("", ptype,
                     \E i \in 1..Len(body.items) :
                        /\ body.items[i].form = "pv"
                        /\ body.items[i].p = "status"
                        /\ body.items[i].s = "FINISHED")
        ELSE Extract("", ptype, FALSE)

InitCollect ==
    /\ token = [a \in Accounts |-> FALSE]
    /\ account_queue = SortByToken(CONFIG_accounts, token)
    /\ in_use_accounts = EmptyDict
    /\ ThreadsIdle
    /\ ReqIdle
    /\ RestIdle

ColFrame == UNCHANGED <<poolVars, thrVars, histVars, reqVars, reqHist,
    wasmVars, sseVars,
    tcVars,
    mpVars,
    ssVars>>

\* collect_deepseek_response(response) is called
CollectStart ==
    /\ col_pc = "idle"
    /\ col_pc' = "reading"
    /\ UNCHANGED <<col_n, col_thinking_parts, col_text_parts, col_closed,
                   col_last, col_result, col_before, col_ended>>
    /\ ColFrame

\* one pass of the for-loop: a line is read; on is_finished the loop is left,
\* the finally block closes the response and the function returns
CollectLine ==
    /\ col_pc = "reading"
    /\ col_n < MaxLines
    /\ \E chunk \in CollectLines :
         LET r == IF chunk.none THEN NoExtract ELSE extract_content_from_chunk(chunk)
             add == ~chunk.none /\ ~r.is_finished /\ r.content # ""
         IN  /\ col_n' = col_n + 1
             /\ col_last' = chunk
             /\ col_result' = r
             /\ col_before' = [thinking |-> col_thinking_parts, text |-> col_text_parts]
             /\ col_thinking_parts' =
                   IF add /\ r.content_type = "thinking"
                   THEN Append(col_thinking_parts, r.content) ELSE col_thinking_parts
             /\ col_text_parts' =
                   IF add /\ r.content_type # "thinking"
                   THEN Append(col_text_parts, r.content) ELSE col_text_parts
             /\ col_pc' = IF r.is_finished THEN "returned" ELSE "reading"
             /\ col_closed' = IF r.is_finished THEN col_closed + 1 ELSE col_closed
             /\ col_ended' = r.is_finished
    /\ ColFrame

\* the lines run out, or iter_lines raises: the finally block closes the
\* response and the function returns what was collected
CollectStop ==
    /\ col_pc = "reading"
    /\ col_pc' = "returned"
    /\ col_closed' = col_closed + 1
    /\ UNCHANGED <<col_n, col_thinking_parts, col_text_parts, col_last,
                   col_result, col_before, col_ended>>
    /\ ColFrame

\* the caller takes the result; another response may be collected
CollectDone ==
    /\ col_pc = "returned"
    /\ col_pc' = "idle"
    /\ col_n' = 0
    /\ col_thinking_parts' = <<>>
    /\ col_text_parts' = <<>>
    /\ col_closed' = 0
    /\ col_last' = NoLine
    /\ col_result' = NoExtract
    /\ col_before' = [thinking |-> <<>>, text |-> <<>>]
    /\ col_ended' = FALSE
    /\ ColFrame

NextCollect ==
    \/ CollectStart
    \/ CollectLine
    \/ CollectStop
    \/ CollectDone

SpecCollect == InitCollect /\ [][NextCollect]_vars

\* the chunk has the key "error", the content-filter code, or is the end marker
EndChunk(chunk) ==
    ~chunk.none /\ (chunk.done \/ chunk.error \/ chunk.code = "content_filter")

\* C26: for a chunk with an "error" key, the content-filter code or the end
\* marker, extract_content_from_chunk returns is_finished with empty content;
\* collect_deepseek_response adds nothing from that chunk, reads no later
\* chunk, and has closed the response once when it returns.
C26_EndChunkStopsCollect ==
    /\ EndChunk(col_last) =>
          /\ col_result.is_finished /\ col_result.content = ""
          /\ col_thinking_parts = col_before.thinking
          /\ col_text_parts = col_before.text
          /\ col_ended
    /\ col_ended => col_pc = "returned"
    /\ col_pc = "returned" => col_closed = 1
    /\ col_pc \in {"idle", "reading"} => col_closed = 0

\* C26 witness: after a thinking and a text chunk, a chunk with an "error" key
\* that also holds content ended the collection with the response closed.
C26_Witness ==
    /\ col_pc = "returned"
    /\ col_last = Line(FALSE, FALSE, TRUE, "", StrChunk("response/content", "a"))
    /\ col_thinking_parts = <<"b">>
    /\ col_text_parts = <<"a">>
    /\ col_closed = 1

\* -------------------------------------------------------------- SpecTools
\* A text is a sequence of segments: "plain" (other text), "ws" (whitespace)
\* and "cand", a substring shaped {"tool_calls": [...]}.  Of a candidate:
\* exact (it starts with {"tool_calls": and ends with ]} as written at line
\* 370), json_ok (it is valid JSON), nested (inside it a "]" is followed by
\* "}", where the lazy group of _TOOL_CALL_PATTERN stops), and elems, the
\* elements of its list.  An element is a dict (with name, None when the key
\* is absent, and input, "absent" when the key is absent) or not a dict.

\* segments a text may have at most (SpecTools)
MaxSegs == 2

None == "<None>"
Elem(dict, name, input) == [dict |-> dict, name |-> name, input |-> input]
CallF == Elem(TRUE, "f", "i1")
CallG == Elem(TRUE, "g", "absent")
CallNoName == Elem(TRUE, None, "i1")
NotDict == Elem(FALSE, None, "absent")
Seg(kind, exact, json_ok, nested, elems) ==
    [kind |-> kind, exact |-> exact, json_ok |-> json_ok, nested |-> nested,
     elems |-> elems]
PlainSeg == Seg("plain", FALSE, FALSE, FALSE, <<>>)
WsSeg == Seg("ws", FALSE, FALSE, FALSE, <<>>)
Segments ==
    {PlainSeg, WsSeg, Seg("cand", TRUE, FALSE, FALSE, <<>>)}
    \cup {Seg("cand", TRUE, TRUE, FALSE, elems) :
            elems \in {<<>>, <<CallF>>, <<CallG>>, <<CallG, CallF>>, <<CallNoName>>,
                       <<NotDict>>, <<CallF, NotDict>>}}
    \cup {Seg("cand", TRUE, TRUE, TRUE, <<CallF>>),
          Seg("cand", FALSE, TRUE, FALSE, <<CallF>>)}
Texts == UNION {[1..k -> Segments] : k \in 0..MaxSegs}
\* tools_requested, by the names of its tools
ToolLists == {<<>>, <<"f">>, <<"g", "f">>, <<None>>}

\* text.strip()
RECURSIVE lstrip(_)
lstrip(text) ==
    IF text # <<>> /\ Head(text).kind = "ws" THEN lstrip(Tail(text)) ELSE text
RECURSIVE rstrip(_)
rstrip(text) ==
    IF text # <<>> /\ text[Len(text)].kind = "ws"
    THEN rstrip(SubSeq(text, 1, Len(text) - 1)) ELSE text
strip(text) == rstrip(lstrip(text))

\* any(tool.get("name") == tool_name for tool in tools_requested)
name_requested_Any(tool_name, tools_requested) == TRUE
name_requested(tool_name, tools_requested) ==
    \E i \in 1..Len(tools_requested) : tools_requested[i] = tool_name

\* tool_call.get("input", {})
input_of(tool_call) == IF tool_call.input = "absent" THEN "{}" ELSE tool_call.input

\* the loops of lines 373-377 and 389-393 from detected on: tool_call.get
\* raises AttributeError on an element that is not a dict
RECURSIVE detect(_, _, _)
detect(elems, tools_requested, detected) ==
    IF elems = <<>> THEN Calls(FALSE, detected)
    ELSE LET tool_call == Head(elems)
         IN  IF ~tool_call.dict THEN Calls(TRUE, <<>>)
             ELSE detect(Tail(elems), tools_requested,
                         IF name_requested(tool_call.name, tools_requested)
                         THEN Append(detected, [name |-> tool_call.name,
                                                input |-> input_of(tool_call)])
                         ELSE detected)

\* lines 384-395: the matches of _TOOL_CALL_PATTERN in order; a match whose
\* group is not valid JSON in {"tool_calls": [...]} is skipped
RECURSIVE scan_matches(_, _, _)
scan_matches(segs, tools_requested, detected) ==
    IF segs = <<>> THEN Calls(FALSE, detected)
    ELSE LET seg == Head(segs)
         IN  IF seg.kind # "cand" \/ ~seg.json_ok \/ seg.nested
             THEN scan_matches(Tail(segs), tools_requested, detected)
             ELSE LET r == detect(seg.elems, tools_requested, detected)
                  IN  IF r.raised THEN r
                      ELSE scan_matches(Tail(segs), tools_requested, r.calls)

parse_tool_calls(text, tools_requested) ==
    LET cleaned_text == strip(text)
        direct ==
            /\ cleaned_text # <<>>
            /\ Head(cleaned_text).kind = "cand" /\ Head(cleaned_text).exact
            /\ cleaned_text[Len(cleaned_text)].kind = "cand"
            /\ cleaned_text[Len(cleaned_text)].exact
        \* json.loads(cleaned_text) gives a value for one valid candidate alone
        loads == Len(cleaned_text) = 1 /\ cleaned_text[1].json_ok
        first == IF direct /\ loads
                 THEN detect(cleaned_text[1].elems, tools_requested, <<>>)
                 ELSE NoCalls
    IN  IF first.raised \/ first.calls # <<>> THEN first
        ELSE scan_matches(cleaned_text, tools_requested, <<>>)

InitTools ==
    /\ token = [a \in Accounts |-> FALSE]
    /\ account_queue = SortByToken(CONFIG_accounts, token)
    /\ in_use_accounts = EmptyDict
    /\ ThreadsIdle
    /\ ReqIdle
    /\ RestIdle

TcFrame == UNCHANGED <<poolVars, thrVars, histVars, reqVars, reqHist,
    wasmVars, sseVars, colVars,
    mpVars,
    ssVars>>

\* a response text is complete and the request named tools
TcInput ==
    /\ tc_pc = "idle"
    /\ \E text \in Texts, tools_requested \in ToolLists :
         /\ tc_text' = text
         /\ tc_tools' = tools_requested
    /\ tc_pc' = "ready"
    /\ UNCHANGED tc_result
    /\ TcFrame

\* parse_tool_calls(text, tools_requested)
TcCall ==
    /\ tc_pc = "ready"
    /\ tc_result' = parse_tool_calls(tc_text, tc_tools)
    /\ tc_pc' = "done"
    /\ UNCHANGED <<tc_text, tc_tools>>
    /\ TcFrame

TcReset ==
    /\ tc_pc = "done"
    /\ tc_pc' = "idle"
    /\ tc_text' = <<>>
    /\ tc_tools' = <<>>
    /\ tc_result' = NoCalls
    /\ TcFrame

NextTools ==
    \/ TcInput
    \/ TcCall
    \/ TcReset

SpecTools == InitTools /\ [][NextTools]_vars

\* C27: parse_tool_calls raises for no text and tool list.
C27_NeverRaises == tc_pc = "done" => ~tc_result.raised

\* the calls written in the candidates of a text, in the order of the text
RECURSIVE ElemCalls(_)
ElemCalls(elems) ==
    IF elems = <<>> THEN <<>>
    ELSE (IF Head(elems).dict
          THEN <<[name |-> Head(elems).name, input |-> input_of(Head(elems))]>>
          ELSE <<>>) \o ElemCalls(Tail(elems))
RECURSIVE TextCalls(_)
TextCalls(text) ==
    IF text = <<>> THEN <<>>
    ELSE (IF Head(text).kind = "cand" /\ Head(text).json_ok
          THEN ElemCalls(Head(text).elems) ELSE <<>>) \o TextCalls(Tail(text))
\* a is b with some elements left out
RECURSIVE IsSubseq(_, _)
IsSubseq(a, b) ==
    \/ a = <<>>
    \/ /\ b # <<>>
       /\ \/ Head(a) = Head(b) /\ IsSubseq(Tail(a), Tail(b))
          \/ IsSubseq(a, Tail(b))

\* C28: every call parse_tool_calls returns has the name of a tool of the
\* list; the calls come in the order of the text, each written call at most
\* once; a text without tool_calls JSON, or an empty tool list, gives no call.
C28_ReturnedCalls ==
    tc_pc = "done" /\ ~tc_result.raised =>
        /\ \A i \in 1..Len(tc_result.calls) :
              \E j \in 1..Len(tc_tools) : tc_tools[j] = tc_result.calls[i].name
        /\ IsSubseq(tc_result.calls, TextCalls(tc_text))
        /\ (\A i \in 1..Len(tc_text) : tc_text[i].kind # "cand") =>
              tc_result.calls = <<>>
        /\ tc_tools = <<>> => tc_result.calls = <<>>

\* C28 witness: two candidates in one text gave three calls, in order.
C28_Witness ==
    /\ tc_pc = "done"
    /\ Len(tc_text) = 2
    /\ tc_result.calls = <<[name |-> "g", input |-> "{}"], [name |-> "f", input |-> "i1"],
                           [name |-> "f", input |-> "i1"]>>

\* ----------------------------------------------------------- SpecMessages
\* A string is the sequence of its pieces: words, newlines, the role markers,
\* a markdown image and the link it is rewritten to.

\* messages a request may hold at most (SpecMessages)
MaxMsgs == 3

AssistantMarker == "<Assistant>"
EndOfSentence == "<end_of_sentence>"
UserMarker == "<User>"
Image == "![alt](url)"
Link == "[alt](url)"

\* the content of a message: a string, or a list of typed items
StrContent(str) == [list |-> FALSE, s |-> str, items |-> <<>>]
ListContent(items) == [list |-> TRUE, s |-> "", items |-> items]
Contents ==
    {StrContent("a"), StrContent(Image),
     ListContent(<<[type |-> "text", text |-> "a"],
                   [type |-> "image_url", text |-> ""],
                   [type |-> "text", text |-> "b"]>>)}
Roles == {"user", "system", "assistant", "tool"}
Messages == [role : Roles, content : Contents]
MessageLists == UNION {[1..k -> Messages] : k \in 0..MaxMsgs}

\* sep.join(texts)
RECURSIVE join(_, _)
join(sep, texts) ==
    IF texts = <<>> THEN <<>>
    ELSE IF Len(texts) = 1 THEN <<Head(texts)>>
    ELSE <<Head(texts), sep>> \o join(sep, Tail(texts))

\* lines 27-34: the text of a message
message_text(content) ==
    IF content.list
    THEN LET typed == SelectSeq(content.items, LAMBDA item : item.type = "text")
         IN  join("\n", [i \in 1..Len(typed) |-> typed[i].text])
    ELSE <<content.s>>

\* lines 24-35
processed_of(messages) ==
    [i \in 1..Len(messages) |->
        [role |-> messages[i].role, text |-> message_text(messages[i].content)]]

\* lines 39-44, from merged on
RECURSIVE merge(_, _)
merge(processed, merged) ==
    IF processed = <<>> THEN merged
    ELSE LET msg == Head(processed)
             last == merged[Len(merged)]
         IN  merge(Tail(processed),
                   IF msg.role = last.role
                   THEN [merged EXCEPT ![Len(merged)].text = @ \o <<"\n\n">> \o msg.text]
                   ELSE Append(merged, msg))

\* line 53: a user or system block takes the marker when idx > 0
user_marker_Always(idx) == TRUE
user_marker(idx) == idx > 0

\* lines 48-58: the part of block idx (idx counts from 0)
part_of(idx, block) ==
    IF block.role = "assistant"
    THEN <<AssistantMarker>> \o block.text \o <<EndOfSentence>>
    ELSE IF block.role \in {"user", "system"}
    THEN IF user_marker(idx) THEN <<UserMarker>> \o block.text ELSE block.text
    ELSE block.text

\* "".join(parts)
RECURSIVE concat(_)
concat(parts) == IF parts = <<>> THEN <<>> ELSE Head(parts) \o concat(Tail(parts))

\* _MARKDOWN_IMAGE_PATTERN.sub(r"[\1](\2)", final_prompt)
image_sub(final_prompt) ==
    [i \in 1..Len(final_prompt) |->
        IF final_prompt[i] = Image THEN Link ELSE final_prompt[i]]

messages_prepare(messages) ==
    LET processed == processed_of(messages)
    IN  IF processed = <<>> THEN <<>>
        ELSE LET merged == merge(Tail(processed), <<Head(processed)>>)
                 parts == [i \in 1..Len(merged) |-> part_of(i - 1, merged[i])]
             IN  image_sub(concat(parts))

InitMessages ==
    /\ token = [a \in Accounts |-> FALSE]
    /\ account_queue = SortByToken(CONFIG_accounts, token)
    /\ in_use_accounts = EmptyDict
    /\ ThreadsIdle
    /\ ReqIdle
    /\ RestIdle

MpFrame == UNCHANGED <<poolVars, thrVars, histVars, reqVars, reqHist,
    wasmVars, sseVars, colVars, tcVars,
    ssVars>>

\* a request arrives with its messages
MpInput ==
    /\ mp_pc = "idle"
    /\ \E messages \in MessageLists : mp_messages' = messages
    /\ mp_pc' = "ready"
    /\ UNCHANGED mp_result
    /\ MpFrame

\* messages_prepare(messages)
MpCall ==
    /\ mp_pc = "ready"
    /\ mp_result' = messages_prepare(mp_messages)
    /\ mp_pc' = "done"
    /\ UNCHANGED mp_messages
    /\ MpFrame

MpReset ==
    /\ mp_pc = "done"
    /\ mp_pc' = "idle"
    /\ mp_messages' = <<>>
    /\ mp_result' = <<>>
    /\ MpFrame

NextMessages ==
    \/ MpInput
    \/ MpCall
    \/ MpReset

SpecMessages == InitMessages /\ [][NextMessages]_vars

\* the last message of the maximal run of one role that starts at message i
RunEnd(ms, i) ==
    CHOOSE j \in i..Len(ms) :
        /\ \A k \in i..j : ms[k].role = ms[i].role
        /\ j = Len(ms) \/ ms[j + 1].role # ms[i].role
\* the texts of messages i to j joined by a double newline
RECURSIVE RunText(_, _, _)
RunText(ms, i, j) ==
    IF i = j THEN message_text(ms[i].content)
    ELSE message_text(ms[i].content) \o <<"\n\n">> \o RunText(ms, i + 1, j)
\* the block of the run that starts at message i, with its markers
RunBlock(ms, i) ==
    LET text == RunText(ms, i, RunEnd(ms, i))
    IN  IF ms[i].role = "assistant"
        THEN <<AssistantMarker>> \o text \o <<EndOfSentence>>
        ELSE IF i = 1 THEN text ELSE <<UserMarker>> \o text
\* the blocks of the runs from message i on, in input order
RECURSIVE RunBlocks(_, _)
RunBlocks(ms, i) ==
    IF i > Len(ms) THEN <<>>
    ELSE RunBlock(ms, i) \o RunBlocks(ms, RunEnd(ms, i) + 1)
\* a string up to the "!" of its markdown images
NoBang(str) == [i \in 1..Len(str) |-> IF str[i] = Image THEN Link ELSE str[i]]

\* C29: for messages of the roles user, system and assistant the prompt is,
\* in input order, one block per maximal run of messages of one role, its
\* texts joined by a double newline; an assistant block stands between the
\* assistant marker and the end-of-turn marker; a user or system block has
\* the user marker before it unless it is the very first block (markdown
\* images are compared as the links they are rewritten to).
C29_MessageBlocks ==
    (mp_pc = "done"
     /\ \A i \in 1..Len(mp_messages) :
           mp_messages[i].role \in {"user", "system", "assistant"}) =>
        NoBang(mp_result) = NoBang(RunBlocks(mp_messages, 1))

\* C29 witness: two user messages and an assistant message gave a first block
\* without marker, joined by a double newline, and a wrapped assistant block.
C29_Witness ==
    /\ mp_pc = "done"
    /\ Len(mp_messages) = 3
    /\ mp_result = <<"a", "\n\n", "a", AssistantMarker, "a", EndOfSentence>>

\* ------------------------------------------------------------- SpecStream
\* Time is counted in seconds since last_send_time and last_content_time; a
\* count is kept up to the value it is compared with.  An item of
\* result_queue is a chunk with text content ("plain", "calls": a tool_calls
\* JSON naming f, "bad": a tool_calls JSON whose element is not an object),
\* "hidden" (a chunk with thinking content, the request being without
\* thinking), "stop" or "filter" (a choice with only a finish_reason, stop or
\* content_filter), "error" (the text put for a line that cannot be parsed)
\* or "None" (the end).

KEEP_ALIVE_TIMEOUT == 5
STREAM_IDLE_TIMEOUT == 30
MAX_KEEPALIVE_COUNT == 10
\* items result_queue may hold at most while it is read (SpecStream)
MaxQueue == 1
\* chunks with text content a response may have at most (SpecStream)
MaxTexts == 1

TextItems == {"plain", "calls", "bad"}
text_of(item) ==
    CASE item = "plain" -> PlainSeg
      [] item = "error" -> PlainSeg
      [] item = "calls" -> Seg("cand", TRUE, TRUE, FALSE, <<CallF>>)
      [] item = "bad" -> Seg("cand", TRUE, TRUE, FALSE, <<NotDict>>)
\* chunks with text content put or about to be put so far
TextsOut ==
    Len(ss_final_text) + Cardinality({i \in 1..Len(ss_queue) : ss_queue[i] \in TextItems})

InitStream ==
    /\ token = [a \in Accounts |-> FALSE]
    /\ account_queue = SortByToken(CONFIG_accounts, token)
    /\ in_use_accounts = EmptyDict
    /\ ThreadsIdle
    /\ ReqIdle
    /\ RestIdle

SsFrame == UNCHANGED <<poolVars, thrVars, histVars, reqVars, reqHist,
    wasmVars, sseVars, colVars, tcVars, mpVars>>

prodVars == <<ss_prod, ss_pending, ss_has_content, ss_queue, ss_exit, ss_closed>>
loopVars == <<ss_pc, ss_forced, ss_first_chunk_sent, ss_keepalive_count,
              ss_send_age, ss_content_age, ss_finish_sent, ss_done_sent,
              ss_final_text, ss_raised, ss_finish_reason>>

\* sse_stream starts (lines 186-197, 279) for a request with or without tools
SsStart ==
    /\ ss_pc = "idle"
    /\ ss_pc' = "loop"
    /\ ss_prod' = "run"
    /\ ss_tools_requested' \in {<<>>, <<"f">>}
    /\ UNCHANGED <<ss_forced, ss_first_chunk_sent, ss_keepalive_count, ss_send_age,
                   ss_content_age, ss_finish_sent, ss_done_sent, ss_pending,
                   ss_has_content, ss_queue, ss_final_text, ss_raised,
                   ss_finish_reason, ss_exit, ss_closed>>
    /\ SsFrame

\* a second passes
SsTick ==
    /\ ss_pc = "loop"
    /\ ss_send_age < KEEP_ALIVE_TIMEOUT \/ ss_content_age <= STREAM_IDLE_TIMEOUT
    /\ ss_send_age' = IF ss_send_age < KEEP_ALIVE_TIMEOUT THEN ss_send_age + 1
                      ELSE ss_send_age
    /\ ss_content_age' = IF ss_content_age <= STREAM_IDLE_TIMEOUT
                         THEN ss_content_age + 1 ELSE ss_content_age
    /\ UNCHANGED <<ss_pc, ss_forced, ss_first_chunk_sent, ss_keepalive_count,
                   ss_finish_sent, ss_done_sent, ss_final_text, ss_raised,
                   ss_finish_reason, ss_tools_requested, prodVars>>
    /\ SsFrame

\* process_data has a fragment with content: has_content = True (line 250)
SsProdContent ==
    /\ ss_prod = "run"
    /\ \E item \in TextItems \cup {"hidden"} :
          /\ item \in TextItems => TextsOut < MaxTexts
          /\ ss_pending' = item
    /\ ss_has_content' = TRUE
    /\ ss_prod' = "put"
    /\ UNCHANGED <<ss_queue, ss_exit, ss_closed, ss_tools_requested, loopVars>>
    /\ SsFrame

\* process_data meets the end of the response: is_finished (a finish_reason
\* choice, then None) or [DONE] (None)
SsProdFinish ==
    /\ ss_prod = "run"
    /\ \E item \in {"stop", "None"} :
          /\ ss_pending' = item
          /\ ss_exit' = IF item = "stop" THEN "finished" ELSE "done"
    /\ ss_prod' = "put"
    /\ UNCHANGED <<ss_has_content, ss_queue, ss_closed, ss_tools_requested, loopVars>>
    /\ SsFrame

\* lines 230-234: the chunk has an "error" key or the code content_filter
SsProdFilter ==
    /\ ss_prod = "run"
    /\ ss_pending' = "filter"
    /\ ss_exit' = "filter"
    /\ ss_prod' = "put"
    /\ UNCHANGED <<ss_has_content, ss_queue, ss_closed, ss_tools_requested, loopVars>>
    /\ SsFrame

\* lines 226-227, 264-268: json.loads or the parsing of the chunk raises
SsProdMalformed ==
    /\ ss_prod = "run"
    /\ ss_pending' = "error"
    /\ ss_exit' = "malformed"
    /\ ss_prod' = "put"
    /\ UNCHANGED <<ss_has_content, ss_queue, ss_closed, ss_tools_requested, loopVars>>
    /\ SsFrame

\* line 205: iter_lines() ends, the upstream having sent no end; lines 274-275
SsProdEof ==
    /\ ss_prod = "run"
    /\ ss_exit' = "eof"
    /\ ss_prod' = "ended"
    /\ ss_closed' = TRUE
    /\ UNCHANGED <<ss_pending, ss_has_content, ss_queue, ss_tools_requested, loopVars>>
    /\ SsFrame

\* result_queue.put(...); after None, process_data returns through its finally
\* (lines 274-275).  The queue of the code has no bound: once the loop has
\* ended nothing reads it and what is put is not kept here.
SsProdPut ==
    /\ ss_prod = "put"
    /\ Len(ss_queue) < MaxQueue \/ ss_pc # "loop"
    /\ ss_queue' = IF Len(ss_queue) < MaxQueue THEN Append(ss_queue, ss_pending)
                   ELSE ss_queue
    /\ ss_prod' = IF ss_pending = "None" THEN "ended"
                  ELSE IF ss_pending \in {"stop", "filter", "error"} THEN "put"
                  ELSE "run"
    /\ ss_closed' = (ss_pending = "None")
    /\ ss_pending' = "None"
    /\ UNCHANGED <<ss_has_content, ss_exit, ss_tools_requested, loopVars>>
    /\ SsFrame

\* line 285: current_time - last_content_time > STREAM_IDLE_TIMEOUT
idle_exceeded(content_age) == content_age > STREAM_IDLE_TIMEOUT

\* lines 353-374: the item gives a delta to send
has_delta(item, first_chunk_sent) ==
    ~first_chunk_sent \/ item \in TextItems \cup {"error"}

\* lines 316-321 and 407-412: parse_tool_calls raises on final_text
finish_raises(final_text, tools_requested) ==
    /\ tools_requested # <<>>
    /\ parse_tool_calls(final_text, tools_requested).raised

\* lines 316-321 and 407-412: the finish_reason of the finish chunk
finish_reason_of(final_text, tools_requested) ==
    IF tools_requested # <<>> /\ parse_tool_calls(final_text, tools_requested).calls # <<>>
    THEN "tool_calls" ELSE "stop"

\* lines 394-430 after the loop: if has_content, the finish chunk and the end
\* marker are sent
after_loop(sent, has_content) == IF has_content THEN sent + 1 ELSE sent

\* the loop is left by a timeout (lines 285-292), then lines 394-430; an
\* exception of parse_tool_calls is logged at lines 432-433
SsForcedExit ==
    /\ ss_pc = "loop"
    /\ ss_has_content
    /\ idle_exceeded(ss_content_age) \/ ss_keepalive_count >= MAX_KEEPALIVE_COUNT
    /\ ss_pc' = "done"
    /\ ss_forced' = TRUE
    /\ IF finish_raises(ss_final_text, ss_tools_requested)
       THEN /\ ss_raised' = TRUE
            /\ UNCHANGED <<ss_finish_sent, ss_done_sent, ss_finish_reason>>
       ELSE /\ ss_finish_sent' = after_loop(ss_finish_sent, ss_has_content)
            /\ ss_done_sent' = after_loop(ss_done_sent, ss_has_content)
            /\ ss_finish_reason' = finish_reason_of(ss_final_text, ss_tools_requested)
            /\ UNCHANGED ss_raised
    /\ UNCHANGED <<ss_first_chunk_sent, ss_keepalive_count, ss_send_age,
                   ss_content_age, ss_final_text, ss_tools_requested, prodVars>>
    /\ SsFrame

no_timeout ==
    ~(ss_has_content
      /\ (idle_exceeded(ss_content_age) \/ ss_keepalive_count >= MAX_KEEPALIVE_COUNT))

\* lines 294-298: a keep-alive is sent
SsKeepAlive ==
    /\ ss_pc = "loop"
    /\ no_timeout
    /\ ss_send_age >= KEEP_ALIVE_TIMEOUT
    /\ ss_send_age' = 0
    /\ ss_keepalive_count' = IF ss_keepalive_count < MAX_KEEPALIVE_COUNT
                             THEN ss_keepalive_count + 1 ELSE ss_keepalive_count
    /\ UNCHANGED <<ss_pc, ss_forced, ss_first_chunk_sent, ss_content_age,
                   ss_finish_sent, ss_done_sent, ss_final_text, ss_raised,
                   ss_finish_reason, ss_tools_requested, prodVars>>
    /\ SsFrame

\* lines 300-391: an item is taken from the queue; on None the finish chunk
\* and the end marker are sent, the loop is left, and lines 394-430 follow
SsDequeue ==
    /\ ss_pc = "loop"
    /\ no_timeout
    /\ ss_send_age < KEEP_ALIVE_TIMEOUT
    /\ ss_queue # <<>>
    /\ ss_queue' = Tail(ss_queue)
    /\ ss_keepalive_count' = 0
    /\ LET chunk == Head(ss_queue)
           sends == has_delta(chunk, ss_first_chunk_sent)
       IN  IF chunk = "None"
           THEN /\ ss_pc' = "done"
                /\ IF finish_raises(ss_final_text, ss_tools_requested)
                   THEN /\ ss_raised' = TRUE
                        /\ UNCHANGED <<ss_finish_sent, ss_done_sent, ss_send_age,
                                       ss_finish_reason>>
                   ELSE /\ ss_finish_sent' =
                              after_loop(ss_finish_sent + 1, ss_has_content)
                        /\ ss_done_sent' = after_loop(ss_done_sent + 1, ss_has_content)
                        /\ ss_finish_reason' =
                              finish_reason_of(ss_final_text, ss_tools_requested)
                        /\ ss_send_age' = 0
                        /\ UNCHANGED ss_raised
                /\ UNCHANGED <<ss_first_chunk_sent, ss_content_age, ss_final_text>>
           ELSE /\ ss_first_chunk_sent' = TRUE
                /\ ss_final_text' = IF chunk \in TextItems \cup {"error"}
                                    THEN Append(ss_final_text, text_of(chunk))
                                    ELSE ss_final_text
                /\ ss_content_age' = IF sends THEN 0 ELSE ss_content_age
                /\ ss_send_age' = IF sends THEN 0 ELSE ss_send_age
                /\ UNCHANGED <<ss_pc, ss_finish_sent, ss_done_sent, ss_raised,
                               ss_finish_reason>>
    /\ UNCHANGED <<ss_forced, ss_prod, ss_pending, ss_has_content, ss_exit,
                   ss_closed, ss_tools_requested>>
    /\ SsFrame

\* one pass of the polling loop
SsLoop == SsForcedExit \/ SsKeepAlive \/ SsDequeue

\* the response is over and process_data has ended
SsEnd ==
    /\ ss_pc = "done"
    /\ ss_prod = "ended"
    /\ ss_pc' = "idle"
    /\ ss_forced' = FALSE
    /\ ss_first_chunk_sent' = FALSE
    /\ ss_keepalive_count' = 0
    /\ ss_send_age' = 0
    /\ ss_content_age' = 0
    /\ ss_finish_sent' = 0
    /\ ss_done_sent' = 0
    /\ ss_prod' = "idle"
    /\ ss_pending' = "None"
    /\ ss_has_content' = FALSE
    /\ ss_queue' = <<>>
    /\ ss_tools_requested' = <<>>
    /\ ss_final_text' = <<>>
    /\ ss_raised' = FALSE
    /\ ss_finish_reason' = "none"
    /\ ss_exit' = "none"
    /\ ss_closed' = FALSE
    /\ SsFrame

NextStream ==
    \/ SsStart
    \/ SsTick
    \/ SsProdContent
    \/ SsProdFinish
    \/ SsProdFilter
    \/ SsProdMalformed
    \/ SsProdEof
    \/ SsProdPut
    \/ SsForcedExit
    \/ SsKeepAlive
    \/ SsDequeue
    \/ SsEnd

SpecStream == InitStream /\ [][NextStream]_vars
\* the polling loop keeps running: a pass follows at most 0.05 s after the last
SpecStreamFair == SpecStream /\ WF_vars(SsLoop)
\* moreover a pass that finds an item (every 0.05 s, against keepalives 5 s
\* apart) takes it, time passes and process_data runs on; what the upstream
\* sends, and when, is left open
SpecStreamLive ==
    SpecStreamFair /\ SF_vars(SsDequeue) /\ WF_vars(SsTick) /\ WF_vars(SsProdPut)

\* content was received and a timeout condition holds in the loop
TimedOut ==
    /\ ss_pc = "loop"
    /\ ss_has_content
    /\ \/ ss_content_age > STREAM_IDLE_TIMEOUT
       \/ ss_keepalive_count >= MAX_KEEPALIVE_COUNT
\* the loop was left by a timeout and the finish chunk and the end marker
\* were sent
ForcedFinish ==
    /\ ss_pc = "done"
    /\ ss_forced
    /\ ss_finish_sent = 1
    /\ ss_done_sent = 1

\* C30: once content has been received, when no content was sent on for more
\* than STREAM_IDLE_TIMEOUT, or MAX_KEEPALIVE_COUNT keepalives in a row were
\* sent without an item dequeued, the next pass of the loop leaves it, no
\* item is dequeued and no keepalive sent before, and the finish chunk and
\* the end marker are sent after the forced exit.
C30_ForcedTermination ==
    /\ [](ss_forced => ForcedFinish)
    /\ [][TimedOut /\ (ss_pc' # ss_pc \/ Len(ss_queue') < Len(ss_queue)
                       \/ ss_send_age' < ss_send_age
                       \/ ss_keepalive_count' # ss_keepalive_count)
          => ForcedFinish']_vars
    /\ (TimedOut ~> ForcedFinish)

\* C31: when the upstream signals a content filter after content was sent on,
\* the stream ends with a finish chunk whose finish_reason is content_filter.
C31_ContentFilterFinish ==
    (ss_pc = "done" /\ ss_exit = "filter" /\ ~ss_forced /\ ss_final_text # <<>>)
        => (ss_finish_sent >= 1 /\ ss_finish_reason = "content_filter")

\* C32: a chunk that cannot be parsed is skipped: process_data goes on reading
\* and puts nothing in its place.
C32_MalformedSkipped ==
    ss_exit = "malformed"
        => /\ ss_prod = "run"
           /\ ss_pending # "error"
           /\ \A i \in 1..Len(ss_queue) : ss_queue[i] # "error"

\* C33: once the response stream has ended, the upstream response is
\* eventually closed.
C33_UpstreamClosed == (ss_pc = "done") ~> ss_closed

\* C39: a streaming response sends its finish chunk at most once and its end
\* marker at most once.
C39_TerminalOnce == ss_finish_sent <= 1 /\ ss_done_sent <= 1

\* C40: once process_data has ended, the polling loop is eventually left.
C40_StreamTerminates == (ss_prod = "ended") ~> (ss_pc # "loop")

Holding ==
    /\ req.use_config_token
    /\ req.account # NONE
    /\ req.pc \notin {"start", "done"}

\* C35: while a request in flight uses an account, no other request in flight
\* has checked that account out.
C35_AccountNotShared ==
    Holding => req.account \notin others_hold

\* the account is not left in the checked-out map by the request: it is out of
\* the map, or another request checked it out since
Returned(a) == a \notin DOMAIN in_use_accounts \/ a \in others_hold

\* C36: when a failover checked a replacement out, at the end of the request
\* every account the request replaced and every replacement it checked out is
\* returned.
C36_FailoverReturnsAccounts ==
    (req.pc = "done" /\ req_hist.replacements # {}) =>
        \A a \in req.tried_accounts \cup req_hist.replacements : Returned(a)

\* the login of the account checked out at admission failed
AdmissionLoginFailed ==
    /\ req.use_config_token
    /\ req_hist.admitted # NONE
    /\ req.account = NONE
    /\ req.pc \in {"finally", "done"}

\* C37: a request whose admission login failed is rejected with an error, and
\* once it has ended its account is returned to the available queue.
C37_AdmissionLoginFailure ==
    AdmissionLoginFailed =>
        /\ req.status = 500
        /\ req.pc = "done" => Returned(req_hist.admitted)

\* C38: the completion call is made with the token that created the session
\* whose id it sends.
C38_SessionTokenMatches ==
    req_hist.comp_calls > 0 => req.deepseek_token = req_hist.session_token

====
